---- MODULE Spec2Model ----
(***************************************************************************)
(* Model of the senweaver-oauth authorization-flow engine                  *)
(* (BaseAuthSource.authorize / login / refresh / revoke), the state cache  *)
(* (MemoryCacheStore over a TTL cache) and a set of provider adapters that *)
(* covers the families found in senweaver_oauth/source: the adapters that  *)
(* build their responses with the AuthResponse factories inside try/except *)
(* (github, stack_overflow), the adapters that call the AuthResponse       *)
(* constructor directly and have no try/except (wechat, weibo), and the    *)
(* three-legged adapter (twitter).                                         *)
(***************************************************************************)
EXTENDS Integers, Sequences, FiniteSets, TLC

(***************************************************************************)
(* Bounds of the model                                                     *)
(***************************************************************************)
\* the wall clock stops advancing here (seconds)
MaxClock == 300

\* amounts by which the wall clock advances between two calls (seconds)
ClockSteps == {100}

(***************************************************************************)
(* Values                                                                  *)
(***************************************************************************)
\* Python's None; "" is the empty string.  Both are falsy.
None == "<None>"

\* Python truthiness of an Optional[str]
Truthy(v) == v # None /\ v # ""

\* the adapters of the model (AuthSource.name of each)
Sources == {"github", "stack_overflow", "wechat", "weibo", "twitter"}

\* values uuid.uuid4() can return
Uuids == {"u1"}

\* explicit state values a caller passes to authorize
ExplicitStates == {None, "s1"}

\* state values an inbound callback can carry
CallbackStates == {None, "", "s1", "u1", "forged"}

\* request tokens the three-legged provider hands out, and their secrets
RequestTokens == {"rt1"}

TokenSecret(t) == "secret_" \o t

\* AuthConfig: client_id and client_secret are non-empty (__post_init__)
Configs ==
    {cfg \in [client_id : {"cid"}, redirect_uri : {"http://app/cb"},
              scope : {None, "read"}, ignore_check_state : BOOLEAN] :
        cfg.ignore_check_state => cfg.scope = None}

\* inbound callback maps, by the keys the flow reads
Callbacks ==
    {cb \in [code : {None, "c1"}, auth_code : {None, "ac1"},
             state : CallbackStates, oauth_token : {None} \cup RequestTokens,
             encrypted_data : {None}, iv : {None}] :
        /\ Cardinality({f \in {"code", "auth_code", "oauth_token"} : cb[f] # None}) <= 1
        /\ cb.code = None => cb.state \in {None, "s1"}
        /\ cb.auth_code # None => cb.state = "s1"}

\* callback maps of the mini-program flow: a code with the encrypted user
\* data and its initial vector, any of them possibly missing
MiniCallbacks ==
    [code : {None, "c1"}, auth_code : {None}, state : {None, "forged"},
     oauth_token : {None}, encrypted_data : {None, "enc1"}, iv : {None, "iv1"}]

\* the extra keyword arguments of a login call, by the keys the flow reads
\* and one key no adapter reads; None is an absent key
NoKwargs == [encrypted_data |-> None, iv |-> None, extra |-> None]

KwargSets ==
    {NoKwargs,
     [encrypted_data |-> "enc1", iv |-> "iv1", extra |-> None],
     [encrypted_data |-> None, iv |-> None, extra |-> "x1"]}

\* what the HTTP transport does with one request: a parsed reply without an
\* error marker, a parsed reply with the provider's error marker, or an
\* exception (non-2xx status, timeout, connection failure)
HttpOutcomes == {"ok", "provider_error", "raise"}

\* error codes a provider reports in errcode / error_code (non-zero, and not
\* the HTTP-like 200)
ProviderErrCodes == {40029}

(***************************************************************************)
(* ResponseStatus and AuthResponse                                         *)
(***************************************************************************)
SUCCESS == "SUCCESS"
FAILURE == "FAILURE"
NOT_IMPLEMENTED == "NOT_IMPLEMENTED"
TIMEOUT == "TIMEOUT"
UNAUTHORIZED == "UNAUTHORIZED"
ERROR == "ERROR"

\* absent payload (data=None)
NoData == [kind |-> "none", access_token |-> None, uid |-> None,
           uuid |-> None, username |-> None]

\* AuthToken, by the fields the flow reads
AuthToken(access_token, uid) ==
    [kind |-> "token", access_token |-> access_token, uid |-> uid,
     uuid |-> None, username |-> None]

\* AuthUser, by the fields the flow reads, with the token that produced it
AuthUser(uuid, username, token) ==
    [kind |-> "user", access_token |-> token.access_token, uid |-> token.uid,
     uuid |-> uuid, username |-> username]

\* the dataclass constructor: data defaults to None, status to SUCCESS,
\* message to None.  Messages are sequences of text fragments.
AuthResponse(code, data, status, message) ==
    [code |-> code, data |-> data, status |-> status, message |-> message]

\* AuthResponse(code=.., message=..) as the constructor-calling adapters use it
RawResponse(code, message, data) == AuthResponse(code, data, SUCCESS, message)

success(data) == AuthResponse(200, data, SUCCESS, <<"Success">>)

error(message) == AuthResponse(500, NoData, ERROR, message)

failure(message) == AuthResponse(400, NoData, FAILURE, message)

not_implemented(message) == AuthResponse(501, NoData, NOT_IMPLEMENTED, message)

\* no response object at all (the call raised, or returned something else)
NoResponse == AuthResponse(0, NoData, "NONE", <<>>)

(***************************************************************************)
(* MemoryCacheStore over cachetools.TTLCache                               *)
(* A store is a function from its keys to [val, expires, rank].            *)
(***************************************************************************)
\* MemoryCacheStore(maxsize=1000), the default
maxsize == 1000

\* maxsize values a MemoryCacheStore is built with where the store is small
SmallMaxsizes == {1, 2}

\* timeout authorize passes to cache_store.set
StateTimeout == 180

\* timeout=None, the default of cache_store.set: no timeout given (like 0,
\* it is falsy in `timeout or self.ttl`)
NoTimeout == 0

\* default ttl values a MemoryCacheStore is built with (default 180)
StoreTtls == {60, 180}

EmptyCache == [k \in {} |-> [val |-> None, expires |-> 0, rank |-> 0]]

\* the entries of c under the keys `keys`, in the order they had: rank is the
\* place of an entry in the TTLCache's list of links (1 is the oldest)
Relink(c, keys) ==
    [k \in keys |->
        [c[k] EXCEPT !.rank = Cardinality({j \in keys : c[j].rank <= c[k].rank})]]

\* TTLCache.expire(time): drop the entries whose time is up
Expire(c, time) == Relink(c, {x \in DOMAIN c : time < c[x].expires})

\* TTLCache.popitem, as Cache.__setitem__ calls it on a full cache after
\* expire: drop the first link, the entry that was set longest ago
PopItem(c) == Relink(c, DOMAIN c \ {x \in DOMAIN c : c[x].rank = 1})

\* TTLCache.__contains__: the key has a link and its time is not up
CacheContains(c, time, key) == key \in DOMAIN c /\ time < c[key].expires

\* (variant: an entry is handed out whether or not its time is up)
CacheGet_IgnoresExpiry(c, time, key) ==
    IF key \in DOMAIN c THEN c[key].val ELSE None

\* MemoryCacheStore.get: None for a missing or expired key
CacheGet(c, time, key) ==
    IF key \in DOMAIN c /\ time < c[key].expires THEN c[key].val ELSE None

\* MemoryCacheStore.set: `ttl = timeout or self.ttl` is computed and never
\* used; the entry lives for the ttl the TTLCache was built with.  A new key
\* set on a cache that holds storeMaxsize live entries evicts the oldest one;
\* a key that is set again moves to the end of the list.
CacheSet(c, time, storeTtl, storeMaxsize, key, value, timeout) ==
    LET live == Expire(c, time)
        room == IF key \notin DOMAIN live /\ Cardinality(DOMAIN live) >= storeMaxsize
                THEN PopItem(live) ELSE live
        rest == Relink(room, DOMAIN room \ {key})
    IN  [k \in DOMAIN rest \cup {key} |->
            IF k = key
            THEN [val |-> value, expires |-> time + storeTtl,
                  rank |-> Cardinality(DOMAIN rest) + 1]
            ELSE rest[k]]

\* MemoryCacheStore.delete: `if key in self.cache: del self.cache[key]`
CacheDelete(c, time, key) ==
    IF CacheContains(c, time, key) THEN Relink(c, DOMAIN c \ {key}) ELSE c

\* MemoryCacheStore.clear
CacheClear(c) == EmptyCache

(***************************************************************************)
(* AuthCallback                                                            *)
(***************************************************************************)
\* AuthCallback.build and __post_init__: the recognised keys become fields;
\* code takes the value of auth_code when code is empty
AuthCallbackBuild(data) ==
    [data EXCEPT !.code = IF ~Truthy(data.code) /\ Truthy(data.auth_code)
                          THEN data.auth_code ELSE data.code]

\* the fields of the dataclass besides extras, and the keys build takes for
\* fields: the keys of cls.__annotations__ without extras, which include the
\* class variable _known_fields
DataclassFields ==
    {"code", "auth_code", "state", "authorization_code", "oauth_token",
     "oauth_verifier", "user", "error", "error_description", "error_uri"}

KnownFields == DataclassFields \cup {"_known_fields"}

\* keys and values of the callback maps a caller hands to build
CallbackKeys == {"code", "auth_code", "state", "foo", "extras", "_known_fields"}

CallbackMapValues == {"", "v1", "v2"}

CallbackMaps ==
    UNION {[keys -> CallbackMapValues] : keys \in SUBSET CallbackKeys}

NoMap == [k \in {} |-> None]

NoCallbackObject ==
    [kind |-> "none", exc |-> None, fields |-> NoMap, extras |-> NoMap]

\* AuthCallback.build over any string-keyed map: cls(**kwargs) with the keys
\* found in _known_fields and, when there are other keys, extras; the
\* dataclass constructor raises TypeError for a keyword that is no field;
\* __post_init__ then fills an empty code from auth_code
AuthCallback_build(data) ==
    LET kwargs == {k \in DOMAIN data : k \in KnownFields}
        extras == [k \in DOMAIN data \ KnownFields |-> data[k]]
        init   == [f \in DataclassFields |-> IF f \in kwargs THEN data[f] ELSE None]
    IN  IF \E k \in kwargs : k \notin DataclassFields
        THEN [kind |-> "raise", exc |-> "TypeError", fields |-> NoMap, extras |-> NoMap]
        ELSE [kind |-> "callback", exc |-> None,
              fields |-> [init EXCEPT !["code"] =
                             IF ~Truthy(init["code"]) /\ Truthy(init["auth_code"])
                             THEN init["auth_code"] ELSE init["code"]],
              extras |-> extras]

(***************************************************************************)
(* AuthConfig                                                              *)
(***************************************************************************)
\* arguments a caller gives the AuthConfig constructor; redirect_uri may be
\* left out (None)
ConfigArgs ==
    [client_id : {"", "cid"}, client_secret : {"", "sec"},
     redirect_uri : {None, "", "http://app/cb"}]

\* no value of a pure function: nothing was called
NoOut == [kind |-> "none"]

\* AuthConfig(client_id, client_secret, redirect_uri) with __post_init__
AuthConfig_new(args) ==
    IF ~Truthy(args.client_id) \/ ~Truthy(args.client_secret)
    THEN [kind |-> "raise", exc |-> "ValueError"]
    ELSE [kind |-> "config", exc |-> None,
          config |-> [client_id |-> args.client_id,
                      client_secret |-> args.client_secret,
                      redirect_uri |-> args.redirect_uri,
                      scope |-> None, state |-> None, ignore_check_state |-> FALSE]]

(***************************************************************************)
(* Gender normalisation                                                    *)
(***************************************************************************)
\* the members of the enum AuthGender
AuthGender == {"UNKNOWN", "MALE", "FEMALE"}

\* raw gender values of provider replies, by Python type and text (the two
\* Chinese words are written by their code points): None,
\* strings, integers, booleans (True is 1) and floats with an integer value
\* (val "1" is 1.0)
RawGenders ==
    {[type |-> "none", val |-> ""]}
        \cup [type : {"str"},
               val : {"", "0", "1", "2", "m", "M", "f", "male", "Male", "FEMALE",
                      "\\u7537", "\\u5973", "x"}]
        \cup [type : {"int"}, val : {"0", "1", "2", "3"}]
        \cup [type : {"bool"}, val : {"0", "1"}]
        \cup [type : {"float"}, val : {"1", "2"}]

\* raw == literal for a string literal, and for an integer literal: a string
\* equals only a string, numbers of any numeric type compare by value
EqStr(raw, literal) == raw.type = "str" /\ raw.val = literal

EqInt(raw, literal) == raw.type \in {"int", "bool", "float"} /\ raw.val = literal

\* str(raw).lower(), for the values of the model
StrLower(raw) ==
    CASE raw.type = "bool" -> IF raw.val = "1" THEN "true" ELSE "false"
      [] raw.type = "float" -> raw.val \o ".0"
      [] raw.type = "none" -> "none"
      [] raw.val = "M" -> "m"
      [] raw.val = "Male" -> "male"
      [] raw.val = "FEMALE" -> "female"
      [] OTHER -> raw.val

\* (variant: the text is compared as it comes, without lower())
AuthGender_get_gender_CaseSensitive(raw) ==
    IF raw.type = "none" THEN "UNKNOWN"
    ELSE IF raw.type = "str" /\ raw.val \in {"1", "m", "male", "\\u7537"} THEN "MALE"
    ELSE IF raw.type = "int" /\ raw.val = "1" THEN "MALE"
    ELSE IF raw.type = "str" /\ raw.val \in {"2", "f", "female", "\\u5973"} THEN "FEMALE"
    ELSE IF raw.type = "int" /\ raw.val = "2" THEN "FEMALE"
    ELSE "UNKNOWN"

\* AuthGender.get_gender
AuthGender_get_gender(raw) ==
    IF raw.type = "none" THEN "UNKNOWN"
    ELSE IF StrLower(raw) \in {"1", "m", "male", "\\u7537"} THEN "MALE"
    ELSE IF StrLower(raw) \in {"2", "f", "female", "\\u5973"} THEN "FEMALE"
    ELSE "UNKNOWN"

\* AuthWechatSource._get_gender
AuthWechatSource_get_gender(raw) ==
    IF EqStr(raw, "1") THEN "MALE"
    ELSE IF EqStr(raw, "2") THEN "FEMALE"
    ELSE "UNKNOWN"

\* AuthWechatMiniSource._get_gender
AuthWechatMiniSource_get_gender(raw) ==
    IF EqInt(raw, "1") THEN "MALE"
    ELSE IF EqInt(raw, "2") THEN "FEMALE"
    ELSE "UNKNOWN"

GenderMappings == {"AuthGender", "wechat", "wechat_mini"}

\* the normalisation of `raw` by one of the mappings; none of them raises
get_gender(mapping, raw) ==
    [kind |-> "gender", exc |-> None,
     gender |-> CASE mapping = "AuthGender" -> AuthGender_get_gender(raw)
                  [] mapping = "wechat" -> AuthWechatSource_get_gender(raw)
                  [] mapping = "wechat_mini" -> AuthWechatMiniSource_get_gender(raw)]

(***************************************************************************)
(* Request signatures                                                      *)
(***************************************************************************)
\* parameter names in the order sorted() gives them, and parameter values
KeyOrder == <<"a", "b", "sign">>

SignValues == {"", "1", "12"}

\* a dict of parameters, as the list of its items in insertion order
ParamLists ==
    UNION {{q \in [1..n -> [k : {KeyOrder[i] : i \in DOMAIN KeyOrder}, v : SignValues]] :
               \A i, j \in 1..n : q[i].k = q[j].k => i = j} : n \in 0..Len(KeyOrder)}

ParamKeys(params) == {params[i].k : i \in DOMAIN params}

ParamValue(params, key) == params[CHOOSE i \in DOMAIN params : params[i].k = key].v

\* the application secret (config.client_secret)
ClientSecret == "SECRET"

\* hashlib.md5(text).hexdigest().upper(): the digest is written as the text it
\* is the digest of, so two digests are equal exactly when the texts are
md5_hexdigest_upper(text) == "MD5<" \o text \o ">"

\* the items of `params` with a key in `keys`, sorted by key, joined: with
\* their keys (f"{k}{v}") or as the values alone
RECURSIVE JoinSorted(_, _, _, _)
JoinSorted(params, keys, withKeys, i) ==
    IF i > Len(KeyOrder) THEN ""
    ELSE (IF KeyOrder[i] \in keys
          THEN (IF withKeys THEN KeyOrder[i] ELSE "") \o ParamValue(params, KeyOrder[i])
          ELSE "") \o JoinSorted(params, keys, withKeys, i + 1)

\* the same in insertion order
RECURSIVE JoinInserted(_, _, _, _)
JoinInserted(params, keys, withKeys, i) ==
    IF i > Len(params) THEN ""
    ELSE (IF params[i].k \in keys
          THEN (IF withKeys THEN params[i].k ELSE "") \o params[i].v
          ELSE "") \o JoinInserted(params, keys, withKeys, i + 1)

Signed(text) == [kind |-> "signature", text |-> text, signature |-> md5_hexdigest_upper(text)]

\* (variant: the items are joined in insertion order)
AuthJdSource_sign_InsertionOrder(params) ==
    Signed(ClientSecret \o JoinInserted(params, ParamKeys(params) \ {"sign"}, TRUE, 1)
               \o ClientSecret)

\* AuthJdSource._sign: the secret, key and value of every item but sign in
\* key order, the secret
AuthJdSource_sign(params) ==
    Signed(ClientSecret \o JoinSorted(params, ParamKeys(params) \ {"sign"}, TRUE, 1)
               \o ClientSecret)

\* AuthZxxkSource._sign: the values in key order, the secret
AuthZxxkSource_sign(params) ==
    Signed(JoinSorted(params, ParamKeys(params), FALSE, 1) \o ClientSecret)

SignOf(adapter, params) ==
    IF adapter = "jd" THEN AuthJdSource_sign(params) ELSE AuthZxxkSource_sign(params)

\* the private key an alipay configuration holds in client_secret: none, a
\* text that is no key, or the private half of a key pair
RsaKeys == {"", "garbage", "PRIV1"}

LoadableKeys == {"PRIV1"}

PublicOf(private_key) == IF private_key = "PRIV1" THEN "PUB1" ELSE None

\* alipay parameter values: absent, empty, and two texts
AlipayValues == {None, "", "1", "12"}

AlipayParamLists ==
    UNION {{q \in [1..n -> [k : {KeyOrder[i] : i \in DOMAIN KeyOrder}, v : AlipayValues]] :
               \A i, j \in 1..n : q[i].k = q[j].k => i = j} : n \in 0..Len(KeyOrder)}

\* "&".join(f"{k}={v}") over the items with a key in `keys`, sorted by key
RECURSIVE JoinAmp(_, _, _, _)
JoinAmp(params, keys, i, first) ==
    IF i > Len(KeyOrder) THEN ""
    ELSE IF KeyOrder[i] \in keys
    THEN (IF first THEN "" ELSE "&") \o KeyOrder[i] \o "="
             \o ParamValue(params, KeyOrder[i]) \o JoinAmp(params, keys, i + 1, FALSE)
    ELSE JoinAmp(params, keys, i + 1, first)

\* a signature value: the base64 text of an RSA signature, written as the
\* key that made it and the text it was made over (PKCS1v15 is
\* deterministic), or a plain text
RsaSignature(private_key, text) == [kind |-> "rsa", signer |-> private_key, over |-> text]

PlainSignature(text) == [kind |-> "text", signer |-> "", over |-> text]

\* public_key.verify(signature, text, PKCS1v15, hash) of the cryptography
\* library, the counterpart of private_key.sign
rsa_verify(public_key, text, signature) ==
    /\ signature.kind = "rsa"
    /\ PublicOf(signature.signer) = public_key
    /\ signature.over = text

\* AuthAlipaySource._sign_data
AuthAlipaySource_sign_data(private_key, data_str) ==
    IF ~Truthy(private_key) THEN PlainSignature("signature_placeholder")
    ELSE IF private_key \notin LoadableKeys THEN PlainSignature("signature_placeholder")
    ELSE RsaSignature(private_key, data_str)

\* (variant: the empty parameters are signed too)
AuthAlipaySource_sign_KeepsEmpty(private_key, params) ==
    LET keys == {params[i].k : i \in {j \in DOMAIN params : params[j].k # "sign"}}
        data_str == JoinAmp([i \in DOMAIN params |->
                                [params[i] EXCEPT !.v = IF Truthy(@) THEN @ ELSE ""]],
                            keys, 1, TRUE)
    IN  IF ~Truthy(private_key)
        THEN [kind |-> "signature", text |-> "",
              signature |-> PlainSignature("signature_placeholder")]
        ELSE [kind |-> "signature", text |-> data_str,
              signature |-> AuthAlipaySource_sign_data(private_key, data_str)]

\* AuthAlipaySource._sign
AuthAlipaySource_sign(private_key, params) ==
    LET keys == {params[i].k : i \in {j \in DOMAIN params :
                                          Truthy(params[j].v) /\ params[j].k # "sign"}}
        data_str == JoinAmp(params, keys, 1, TRUE)
    IN  IF ~Truthy(private_key)
        THEN [kind |-> "signature", text |-> "",
              signature |-> PlainSignature("signature_placeholder")]
        ELSE [kind |-> "signature", text |-> data_str,
              signature |-> AuthAlipaySource_sign_data(private_key, data_str)]

(***************************************************************************)
(* AES encryption of the zxxk adapter                                      *)
(***************************************************************************)
\* keys, by name, with the length of their UTF-8 encoding; the last one has
\* 16 characters, two of them of two bytes
AesKeys == {"", "key15", "key16", "key24", "key32", "key16chars"}

KeyByteLen(key) ==
    CASE key = "" -> 0
      [] key = "key15" -> 15
      [] key = "key16" -> 16
      [] key = "key24" -> 24
      [] key = "key32" -> 32
      [] key = "key16chars" -> 18

\* plaintexts: none (an optional argument left out), empty, and two texts
AesTexts == {None, "", "13800000000", "openid-1"}

\* a ciphertext in base64: the empty text, or the AES-ECB encryption of the
\* PKCS7-padded text under a key
EmptyCipher == [kind |-> "empty", key |-> "", text |-> ""]

AesCipher(key, text) == [kind |-> "aes", key |-> key, text |-> text]

\* AuthZxxkSource.aes_encrypt
AuthZxxkSource_aes_encrypt(text, key) ==
    IF ~Truthy(text) \/ ~Truthy(key)
    THEN [kind |-> "text", exc |-> None, cipher |-> EmptyCipher]
    ELSE IF KeyByteLen(key) \notin {16, 24, 32}
    THEN [kind |-> "raise", exc |-> "ValueError", cipher |-> EmptyCipher]
    ELSE [kind |-> "text", exc |-> None, cipher |-> AesCipher(key, text)]

\* the inverse of the cipher aes_encrypt uses: base64-decode, AES-ECB decrypt,
\* PKCS7 unpad; the unpadding of no block at all is an error
aes_decrypt(cipher, key) ==
    IF cipher.kind = "aes" /\ cipher.key = key
    THEN [kind |-> "text", exc |-> None, text |-> cipher.text]
    ELSE [kind |-> "raise", exc |-> "ValueError", text |-> ""]

(***************************************************************************)
(* What a step of an adapter hands back to its caller                      *)
(***************************************************************************)
\* the step returned a response object; http counts its HTTP requests
Returned(resp, http) == [kind |-> "response", resp |-> resp, exc |-> None, http |-> http]

\* the step raised
Raised(exc, http) == [kind |-> "raise", resp |-> NoResponse, exc |-> exc, http |-> http]

\* the step returned a bool
ReturnedBool(http) == [kind |-> "bool", resp |-> NoResponse, exc |-> None, http |-> http]

\* the step was not invoked
NotInvoked == [kind |-> "none", resp |-> NoResponse, exc |-> None, http |-> 0]

\* str(e) of the exception the HTTP transport raises
TransportError == "HTTPError"

\* the message a provider sends with its error marker
ProviderMessage == "provider says no"

\* what the provider and the transport do during one call: the outcome of the
\* token request, of the user-info request, and the provider's error code
Envs ==
    {e \in [token : HttpOutcomes, user : HttpOutcomes, errcode : ProviderErrCodes] :
        e.token # "ok" => e.user = "ok"}

\* the token values a caller hands to refresh and revoke
TokenArgs == {"", "RT1"}

(***************************************************************************)
(* Token exchange (get_access_token) of each adapter                       *)
(***************************************************************************)
AuthGithubSource_get_access_token(cfg, cb, c, time, env) ==
    IF ~Truthy(cb.code) THEN Returned(failure(<<"code must not be empty">>), 0)
    ELSE IF env.token = "raise"
         THEN Returned(error(<<"get access token exception: ", TransportError>>), 1)
    ELSE IF env.token = "provider_error"
         THEN Returned(failure(<<ProviderMessage>>), 1)
    ELSE Returned(success(AuthToken("AT1", None)), 1)

AuthStackOverflowSource_get_access_token(cfg, cb, c, time, env) ==
    IF ~Truthy(cb.code) THEN Returned(failure(<<"code must not be empty">>), 0)
    ELSE IF env.token = "raise"
         THEN Returned(error(<<"get access token exception: ", TransportError>>), 1)
    ELSE IF env.token = "provider_error"
         THEN Returned(failure(<<ProviderMessage>>), 1)
    ELSE Returned(success(AuthToken("AT1", None)), 1)

\* no try/except; AuthTokenResponse(code=.., message=..) keeps the default
\* status SUCCESS
AuthWechatSource_get_access_token(cfg, cb, c, time, env) ==
    IF ~Truthy(cb.code)
    THEN Returned(RawResponse(400, <<"code must not be empty">>, NoData), 0)
    ELSE IF env.token = "raise" THEN Raised(TransportError, 1)
    ELSE IF env.token = "provider_error"
         THEN Returned(RawResponse(env.errcode, <<ProviderMessage>>, NoData), 1)
    ELSE Returned(RawResponse(200, <<"got access token">>, AuthToken("AT1", "openid1")), 1)

AuthWeiboSource_get_access_token(cfg, cb, c, time, env) ==
    IF env.token = "raise" THEN Raised(TransportError, 1)
    ELSE IF env.token = "provider_error"
         THEN Returned(RawResponse(400, <<"get access token failed: ", ProviderMessage>>, NoData), 1)
    ELSE Returned(RawResponse(200, <<"got access token">>, AuthToken("AT1", "uid1")), 1)

\* cache key of the token secret of a request token
TwitterSecretKey(oauth_token) == "twitter_token_secret_" \o oauth_token

\* (variant: the exchange is sent whether or not a secret is cached)
AuthTwitterSource_get_access_token_NoSecretCheck(cfg, cb, c, time, env) ==
    IF env.token = "raise" THEN Raised(TransportError, 1)
    ELSE Raised("TypeError", 1)

\* the secret is looked up in the cache; after the HTTP request the AuthToken
\* constructor is called with keywords it does not have (token_secret,
\* user_id, screen_name) and without expires_in, which raises TypeError
AuthTwitterSource_get_access_token(cfg, cb, c, time, env) ==
    IF ~Truthy(CacheGet(c, time, TwitterSecretKey(cb.oauth_token)))
    THEN Returned(RawResponse(400, <<"oauth_token_secret not found">>, NoData), 0)
    ELSE IF env.token = "raise" THEN Raised(TransportError, 1)
    ELSE Raised("TypeError", 1)

\* AuthWechatMiniSource.code_to_session: no try/except, constructor-built
\* responses
AuthWechatMiniSource_code_to_session(cfg, code, env) ==
    IF ~Truthy(code)
    THEN Returned(RawResponse(400, <<"code must not be empty">>, NoData), 0)
    ELSE IF env.token = "raise" THEN Raised(TransportError, 1)
    ELSE IF env.token = "provider_error"
         THEN Returned(RawResponse(env.errcode, <<ProviderMessage>>, NoData), 1)
    ELSE Returned(RawResponse(200, <<"got session key">>, AuthToken("SK1", "openid1")), 1)

AuthWechatMiniSource_get_access_token(cfg, cb, c, time, env) ==
    AuthWechatMiniSource_code_to_session(cfg, cb.code, env)

get_access_token(src, cfg, cb, c, time, env) ==
    CASE src = "github" -> AuthGithubSource_get_access_token(cfg, cb, c, time, env)
      [] src = "stack_overflow" -> AuthStackOverflowSource_get_access_token(cfg, cb, c, time, env)
      [] src = "wechat" -> AuthWechatSource_get_access_token(cfg, cb, c, time, env)
      [] src = "weibo" -> AuthWeiboSource_get_access_token(cfg, cb, c, time, env)
      [] src = "twitter" -> AuthTwitterSource_get_access_token(cfg, cb, c, time, env)
      [] src = "wechat_mini" -> AuthWechatMiniSource_get_access_token(cfg, cb, c, time, env)

(***************************************************************************)
(* User-info step (get_user_info) of each adapter                          *)
(***************************************************************************)
AuthGithubSource_get_user_info(cfg, token, env) ==
    IF env.user = "raise"
    THEN Returned(error(<<"get user info exception: ", TransportError>>), 1)
    ELSE IF env.user = "provider_error" THEN Returned(failure(<<ProviderMessage>>), 1)
    ELSE Returned(success(AuthUser("42", "alice", token)), 1)

AuthStackOverflowSource_get_user_info(cfg, token, env) ==
    IF env.user = "raise"
    THEN Returned(error(<<"get user info exception: ", TransportError>>), 1)
    ELSE IF env.user = "provider_error" THEN Returned(failure(<<ProviderMessage>>), 1)
    ELSE Returned(success(AuthUser("42", "alice", token)), 1)

AuthWechatSource_get_user_info(cfg, token, env) ==
    IF ~Truthy(token.access_token) \/ ~Truthy(token.uid)
    THEN Returned(RawResponse(400, <<"access token or openid empty">>, NoData), 0)
    ELSE IF env.user = "raise" THEN Raised(TransportError, 1)
    ELSE IF env.user = "provider_error"
         THEN Returned(RawResponse(env.errcode, <<ProviderMessage>>, NoData), 1)
    ELSE Returned(RawResponse(200, <<"got user info">>,
                              AuthUser("wechat_" \o token.uid, "alice", token)), 1)

AuthWeiboSource_get_user_info(cfg, token, env) ==
    IF env.user = "raise" THEN Raised(TransportError, 1)
    ELSE IF env.user = "provider_error"
         THEN Returned(RawResponse(env.errcode, <<ProviderMessage>>, NoData), 1)
    ELSE Returned(RawResponse(200, <<"got user info">>,
                              AuthUser("weibo_42", "alice", token)), 1)

\* the user data of a provider's reply to the user-info request: the end user
\* it is about (login) and the provider's id of that user, which the reply
\* may lack
ProviderIdOf(login) == IF login = "alice" THEN "1001" ELSE "1002"

UserReplies ==
    {r \in [login : {"alice", "bob"}, id : {None, "1001", "1002"}] :
        r.id \in {None, ProviderIdOf(r.login)}}

\* the Identity each adapter builds from such a reply
\* github: uuid=str(response.get('id')), and str(None) is the text 'None'
AuthGithubSource_user(reply, token) ==
    success(AuthUser(IF reply.id = None THEN "None" ELSE reply.id, reply.login, token))

\* meituan: uuid=user_data.get('openid')
AuthMeituanSource_user(reply, token) ==
    success(AuthUser(reply.id, reply.login, token))

\* weibo: uuid=f"{self.source.name}_{data.get('id', '')}"
AuthWeiboSource_user(reply, token) ==
    RawResponse(200, <<"got user info">>,
                AuthUser("weibo_" \o (IF reply.id = None THEN "" ELSE reply.id),
                         reply.login, token))

IdentitySources == {"github", "meituan", "weibo"}

UserOfReply(src, reply, token) ==
    CASE src = "github" -> AuthGithubSource_user(reply, token)
      [] src = "meituan" -> AuthMeituanSource_user(reply, token)
      [] src = "weibo" -> AuthWeiboSource_user(reply, token)

\* reads token.token_secret, an attribute AuthToken does not have
AuthTwitterSource_get_user_info(cfg, token, env) == Raised("AttributeError", 0)

\* AuthWechatMiniSource.decrypt_user_info: no HTTP request; env.user says
\* what the payload is: one that decrypts to this client's data, one whose
\* watermark names another appid, or one that does not decrypt (the
\* exception is caught)
AuthWechatMiniSource_decrypt_user_info(cfg, token, encrypted_data, iv, env) ==
    IF ~Truthy(token.access_token)
    THEN Returned(RawResponse(400, <<"session_key must not be empty">>, NoData), 0)
    ELSE IF ~Truthy(encrypted_data) \/ ~Truthy(iv)
    THEN Returned(RawResponse(400, <<"encrypted data or iv empty">>, NoData), 0)
    ELSE IF env.user = "raise"
    THEN Returned(RawResponse(500, <<"decrypt failed: ", "ValueError">>, NoData), 0)
    ELSE IF env.user = "provider_error"
    THEN Returned(RawResponse(400, <<"appid mismatch">>, NoData), 0)
    ELSE Returned(RawResponse(200, <<"got user info">>,
                              AuthUser("wechat_mini_" \o token.uid, "alice", token)), 0)

\* decrypt_user_info by what it does with the bytes.  Texts are written by
\* what base64.b64decode makes of them: session keys and ivs
\*   None, "" (empty), "abc" (incorrect base64 padding: binascii.Error),
\*   "K15", "IV8" (decode to 15 and 8 bytes), "K16", "K16b", "IV16", "IV16b"
\*   (decode to 16 bytes)
MiniSessionKeys == {None, "", "abc", "K15", "K16", "K16b"}

MiniIvs == {None, "", "abc", "IV8", "IV16", "IV16b"}

\* configured client ids, and the appids a watermark can name
MiniClientIds == {"cid", "cid2"}

\* the byte length the base64 text decodes to
B64Len(text) ==
    CASE text = "K15" -> 15
      [] text = "IV8" -> 8
      [] text \in {"K16", "K16b", "IV16", "IV16b"} -> 16
      [] OTHER -> 0

\* what the last byte of a plaintext says about its padding: the byte is 0,
\* the plaintext ends in n bytes of value n (PKCS#7), the byte is in 1..32
\* and the bytes before it are not padding, or the byte is above 32
PadClasses == {"zero", "pkcs7", "lax", "over"}

\* what is left of the plaintext without its last `padding` bytes: no JSON
\* text, a JSON list, or a JSON object whose key watermark is absent, null,
\* a text, an object without appid, or an object with an appid
MiniPlaintexts ==
    {p \in [pad : PadClasses, json : {"notjson", "list", "dict"},
            watermark : {"absent", "null", "text", "noappid"} \cup MiniClientIds] :
        p.json # "dict" => p.watermark = "absent"}

\* encrypted_data: None, '', a text with incorrect base64 padding, a text
\* that decodes to no bytes, one that decodes to part of a block, or the
\* base64 of AES-CBC(key, iv, plain); garbled is the padding class of the
\* bytes that come out under another key or iv
NoPlaintext == [pad |-> "zero", json |-> "notjson", watermark |-> "absent"]

MiniEncrypted ==
    {e \in [shape : {"none", "empty", "undecodable", "nobytes", "partial", "ciphertext"},
            key : {"K16"}, iv : {"IV16"}, plain : MiniPlaintexts,
            garbled : {"pkcs7", "over"}] :
        e.shape # "ciphertext" => e.plain = NoPlaintext /\ e.garbled = "over"}

\* decryptor.update(encrypted_data) + decryptor.finalize(): CBC without
\* unpadding gives the plaintext under the key and iv of the encryption and
\* other bytes under any other key or iv
MiniDecrypted(e, session_key, iv) ==
    IF e.key = session_key /\ e.iv = iv THEN e.plain
    ELSE [pad |-> e.garbled, json |-> "notjson", watermark |-> "absent"]

\* (variant: the watermark is not compared with the client id)
AuthWechatMiniSource_watermark_rejected_Unchecked(client_id, plain) == FALSE

\* `user_data.get("watermark", {}).get("appid") != self.config.client_id`
AuthWechatMiniSource_watermark_rejected(client_id, plain) ==
    plain.watermark # client_id

\* AuthWechatMiniSource.decrypt_user_info(token, encrypted_data, iv), token
\* being None or an AuthToken with access_token = session_key
AuthWechatMiniSource_decrypt_payload(client_id, session_key, e, iv) ==
    LET caught(exc) == Returned(RawResponse(500, <<"decrypt failed: ", exc>>, NoData), 0)
        plain == MiniDecrypted(e, session_key, iv)
    IN  IF ~Truthy(session_key)
        THEN Returned(RawResponse(400, <<"session_key must not be empty">>, NoData), 0)
        ELSE IF e.shape \in {"none", "empty"} \/ ~Truthy(iv)
        THEN Returned(RawResponse(400, <<"encrypted data or iv empty">>, NoData), 0)
        ELSE IF session_key = "abc" \/ e.shape = "undecodable" \/ iv = "abc"
        THEN caught("binascii.Error")
        ELSE IF B64Len(session_key) \notin {16, 24, 32} \/ B64Len(iv) # 16
        THEN caught("ValueError")
        ELSE IF e.shape = "partial" THEN caught("ValueError")
        ELSE IF e.shape = "nobytes" THEN caught("IndexError")
        ELSE IF plain.pad \in {"zero", "over"}
        THEN Returned(RawResponse(400, <<"decrypted data wrong">>, NoData), 0)
        ELSE IF plain.json = "notjson" THEN caught("JSONDecodeError")
        ELSE IF plain.json = "list" \/ plain.watermark \in {"null", "text"}
        THEN caught("AttributeError")
        ELSE IF AuthWechatMiniSource_watermark_rejected(client_id, plain)
        THEN Returned(RawResponse(400, <<"appid mismatch">>, NoData), 0)
        ELSE Returned(RawResponse(200, <<"got user info">>,
                                  AuthUser("wechat_mini_" \o "openid1", "alice",
                                           AuthToken(session_key, "openid1"))), 0)

\* AuthWechatMiniSource.get_user_info: the encrypted material comes in kwargs
AuthWechatMiniSource_get_user_info(cfg, token, kwargs, env) ==
    IF Truthy(kwargs.encrypted_data) /\ Truthy(kwargs.iv)
    THEN AuthWechatMiniSource_decrypt_user_info(cfg, token, kwargs.encrypted_data,
                                                kwargs.iv, env)
    ELSE Returned(failure(<<"encrypted_data and iv are needed">>), 0)

\* self.get_user_info(token, **kwargs): every adapter accepts **kwargs; the
\* adapters other than wechat_mini do not read them
get_user_info(src, cfg, token, kwargs, env) ==
    CASE src = "github" -> AuthGithubSource_get_user_info(cfg, token, env)
      [] src = "stack_overflow" -> AuthStackOverflowSource_get_user_info(cfg, token, env)
      [] src = "wechat" -> AuthWechatSource_get_user_info(cfg, token, env)
      [] src = "weibo" -> AuthWeiboSource_get_user_info(cfg, token, env)
      [] src = "twitter" -> AuthTwitterSource_get_user_info(cfg, token, env)
      [] src = "wechat_mini" -> AuthWechatMiniSource_get_user_info(cfg, token, kwargs, env)

(***************************************************************************)
(* refresh_token / revoke_token of each adapter                            *)
(***************************************************************************)
\* BaseAuthSource.refresh_token, inherited by github
BaseAuthSource_refresh_token(cfg, token, env) ==
    Returned(not_implemented(<<"refresh not supported">>), 0)

\* BaseAuthSource.revoke_token, inherited by github and stack_overflow
BaseAuthSource_revoke_token(cfg, token, env) ==
    Returned(not_implemented(<<"revoke not supported">>), 0)

\* AuthDefaultSource.STACK_OVERFLOW has no refresh_token_url
AuthStackOverflowSource_refresh_token(cfg, token, env) ==
    Returned(not_implemented(<<"refresh not supported">>), 0)

\* the one adapter of the model that refreshes
AuthWechatSource_refresh_token(cfg, token, env) ==
    IF ~Truthy(token)
    THEN Returned(RawResponse(400, <<"refresh token must not be empty">>, NoData), 0)
    ELSE IF env.token = "raise" THEN Raised(TransportError, 1)
    ELSE IF env.token = "provider_error"
         THEN Returned(RawResponse(env.errcode, <<ProviderMessage>>, NoData), 1)
    ELSE Returned(RawResponse(200, <<"refreshed">>, AuthToken("AT2", "openid1")), 1)

AuthWechatSource_revoke_token(cfg, token, env) == ReturnedBool(0)

AuthWeiboSource_refresh_token(cfg, token, env) ==
    Returned(RawResponse(400, <<"weibo does not support refresh">>, NoData), 0)

\* AuthDefaultSource.WEIBO has a revoke_token_url; the argument is a str, so
\* reading token.access_token raises AttributeError before any request
AuthWeiboSource_revoke_token(cfg, token, env) == Raised("AttributeError", 0)

AuthTwitterSource_refresh_token(cfg, token, env) ==
    Returned(RawResponse(400, <<"twitter does not support refresh">>, NoData), 0)

AuthTwitterSource_revoke_token(cfg, token, env) == ReturnedBool(0)

refresh_token(src, cfg, token, env) ==
    CASE src = "github" -> BaseAuthSource_refresh_token(cfg, token, env)
      [] src = "stack_overflow" -> AuthStackOverflowSource_refresh_token(cfg, token, env)
      [] src = "wechat" -> AuthWechatSource_refresh_token(cfg, token, env)
      [] src = "weibo" -> AuthWeiboSource_refresh_token(cfg, token, env)
      [] src = "twitter" -> AuthTwitterSource_refresh_token(cfg, token, env)

revoke_token(src, cfg, token, env) ==
    CASE src \in {"github", "stack_overflow"} -> BaseAuthSource_revoke_token(cfg, token, env)
      [] src = "wechat" -> AuthWechatSource_revoke_token(cfg, token, env)
      [] src = "weibo" -> AuthWeiboSource_revoke_token(cfg, token, env)
      [] src = "twitter" -> AuthTwitterSource_revoke_token(cfg, token, env)

\* the adapters whose provider has no refresh: no refresh_token_url and no
\* override (github), an override that says so (stack_overflow, weibo, twitter)
NoRefreshSources == {"github", "stack_overflow", "weibo", "twitter"}

\* the adapters whose provider has no revoke: no revoke_token_url
NoRevokeSources == {"github", "stack_overflow", "wechat", "twitter"}

(***************************************************************************)
(* Authorize parameters and URL                                            *)
(***************************************************************************)
\* AuthScope: the default scope list of each provider; a name without a
\* member (the caller-defined source "custom") has the empty list
AuthScope_get_scope(src) ==
    CASE src = "github" -> <<"user">>
      [] src = "stack_overflow" -> <<"read_user">>
      [] src = "wechat" -> <<"snsapi_userinfo">>
      [] src = "weibo" -> <<"email">>
      [] src = "twitter" -> <<"read:user">>
      [] src = "coding" -> <<"user", "email">>
      [] OTHER -> <<>>

\* (variant: every provider joins its scopes with a comma)
scope_delimiter_Comma(src) == ","

\* AuthSource.scope_delimiter
scope_delimiter(src) == IF src \in {"github", "coding", "custom"} THEN " " ELSE ","

RECURSIVE Join(_, _)
\* delimiter.join(list)
Join(list, delimiter) ==
    IF list = <<>> THEN ""
    ELSE IF Len(list) = 1 THEN list[1]
    ELSE list[1] \o delimiter \o Join(Tail(list), delimiter)

\* AuthScope.get_scope_str
AuthScope_get_scope_str(src, delimiter) == Join(AuthScope_get_scope(src), delimiter)

\* BaseAuthSource.get_scopes
get_scopes(src, cfg) ==
    IF Truthy(cfg.scope) THEN cfg.scope
    ELSE AuthScope_get_scope_str(src, scope_delimiter(src))

\* AuthSource.authorize_url
authorize_url(src) == "https://" \o src \o "/authorize"

\* what get_authorize_params hands back: the parameter mapping (a sequence
\* of key/value pairs, in insertion order), the cache it leaves and the keys
\* it has passed to cache_store.set, in order; or an exception
ParamsReturned(params, c, writes) ==
    [kind |-> "params", params |-> params, exc |-> None, cache |-> c, writes |-> writes]

ParamsRaised(exc, c) ==
    [kind |-> "raise", params |-> <<>>, exc |-> exc, cache |-> c, writes |-> <<>>]

\* BaseAuthSource.get_authorize_params: writes the state a second time
BaseAuthSource_get_authorize_params(src, cfg, state, uuid, c, time, storeTtl, storeMaxsize, env) ==
    LET st    == IF ~Truthy(state) THEN uuid ELSE state
        c1    == CacheSet(c, time, storeTtl, storeMaxsize, st, st, StateTimeout)
        scope == get_scopes(src, cfg)
        base  == << <<"response_type", "code">>, <<"client_id", cfg.client_id>>,
                    <<"redirect_uri", cfg.redirect_uri>>, <<"state", st>> >>
    IN  ParamsReturned(IF Truthy(scope) THEN Append(base, <<"scope", scope>>) ELSE base,
                       c1, <<st>>)

\* declared as get_authorize_params(self): the call
\* self.get_authorize_params(state) made by authorize raises TypeError
AuthStackOverflowSource_get_authorize_params(src, cfg, state, uuid, c, time, storeTtl, storeMaxsize, env) ==
    ParamsRaised("TypeError", c)

AuthWechatSource_get_authorize_params(src, cfg, state, uuid, c, time, storeTtl, storeMaxsize, env) ==
    ParamsReturned(<< <<"appid", cfg.client_id>>, <<"redirect_uri", cfg.redirect_uri>>,
                      <<"response_type", "code">>, <<"scope", get_scopes(src, cfg)>>,
                      <<"state", IF Truthy(state) THEN state ELSE uuid>> >>, c, <<>>)

AuthWeiboSource_get_authorize_params(src, cfg, state, uuid, c, time, storeTtl, storeMaxsize, env) ==
    ParamsReturned(<< <<"client_id", cfg.client_id>>, <<"redirect_uri", cfg.redirect_uri>>,
                      <<"response_type", "code">>, <<"scope", get_scopes(src, cfg)>>,
                      <<"state", IF Truthy(state) THEN state ELSE uuid>> >>, c, <<>>)

\* acquires a request token first (_get_request_token, no try/except), caches
\* its secret with the store's default ttl and returns the request token only
AuthTwitterSource_get_authorize_params(src, cfg, state, uuid, c, time, storeTtl, storeMaxsize, env) ==
    IF env.token = "raise" THEN ParamsRaised(TransportError, c)
    ELSE IF env.token = "provider_error" THEN ParamsReturned(<<>>, c, <<>>)
    ELSE LET rt == CHOOSE t \in RequestTokens : TRUE
         IN  ParamsReturned(<< <<"oauth_token", rt>> >>,
                            CacheSet(c, time, storeTtl, storeMaxsize, TwitterSecretKey(rt),
                                     TokenSecret(rt), NoTimeout),
                            <<TwitterSecretKey(rt)>>)

get_authorize_params(src, cfg, state, uuid, c, time, storeTtl, storeMaxsize, env) ==
    CASE src = "github" -> BaseAuthSource_get_authorize_params(src, cfg, state, uuid, c, time, storeTtl, storeMaxsize, env)
      [] src = "stack_overflow" -> AuthStackOverflowSource_get_authorize_params(src, cfg, state, uuid, c, time, storeTtl, storeMaxsize, env)
      [] src = "wechat" -> AuthWechatSource_get_authorize_params(src, cfg, state, uuid, c, time, storeTtl, storeMaxsize, env)
      [] src = "weibo" -> AuthWeiboSource_get_authorize_params(src, cfg, state, uuid, c, time, storeTtl, storeMaxsize, env)
      [] src = "twitter" -> AuthTwitterSource_get_authorize_params(src, cfg, state, uuid, c, time, storeTtl, storeMaxsize, env)

\* the URL is the authorize endpoint, '?', the pairs rendered k=v and joined
\* with '&', and for wechat the fragment '#wechat_redirect'
NoUrl == [base |-> None, query |-> <<>>, fragment |-> None]

build_authorize_url(src, params) ==
    [base |-> authorize_url(src), query |-> params,
     fragment |-> IF src = "wechat" THEN "wechat_redirect" ELSE ""]

\* the substring test `value in url`, for a parameter value
UrlContains(url, value) == \E i \in 1..Len(url.query) : url.query[i][2] = value

(***************************************************************************)
(* The engine: BaseAuthSource.authorize / login / refresh / revoke         *)
(***************************************************************************)
\* (variant: the state entry is keyed by the provider's name and the state)
authorize_KeyedByProvider(src, cfg, state, uuid, c, time, storeTtl, storeMaxsize, env) ==
    LET st == IF ~Truthy(state) THEN uuid ELSE state
        key == src \o ":" \o st
        c1 == CacheSet(c, time, storeTtl, storeMaxsize, key, st, StateTimeout)
        pr == get_authorize_params(src, cfg, st, uuid, c1, time, storeTtl, storeMaxsize, env)
    IN  [kind   |-> IF pr.kind = "raise" THEN "raise" ELSE "url",
         url    |-> IF pr.kind = "raise" THEN NoUrl ELSE build_authorize_url(src, pr.params),
         params |-> pr.params,
         exc    |-> pr.exc,
         state  |-> st,
         writes |-> <<key>> \o pr.writes,
         cache  |-> pr.cache]

\* BaseAuthSource.authorize
authorize(src, cfg, state, uuid, c, time, storeTtl, storeMaxsize, env) ==
    LET st == IF ~Truthy(state) THEN uuid ELSE state
        c1 == CacheSet(c, time, storeTtl, storeMaxsize, st, st, StateTimeout)
        pr == get_authorize_params(src, cfg, st, uuid, c1, time, storeTtl, storeMaxsize, env)
    IN  [kind   |-> IF pr.kind = "raise" THEN "raise" ELSE "url",
         url    |-> IF pr.kind = "raise" THEN NoUrl ELSE build_authorize_url(src, pr.params),
         params |-> pr.params,
         exc    |-> pr.exc,
         state  |-> st,
         writes |-> <<st>> \o pr.writes,
         cache  |-> pr.cache]

\* (variant: the lookup is made whenever the callback carries a state)
StateChecked_IgnoresConfig(cfg, cb) == Truthy(cb.state)

\* the state check of login: the lookup is made when checking is not disabled
\* and the callback carries a state
StateChecked(cfg, cb) == ~cfg.ignore_check_state /\ Truthy(cb.state)

\* (variant: the lookup only asks whether the key was ever stored, expired or not)
StateRejected_IgnoresExpiry(cfg, cb, c, time) ==
    StateChecked(cfg, cb) /\ cb.state \notin DOMAIN c

\* ... and rejects when the cache has no (unexpired) entry for it
StateRejected(cfg, cb, c, time) ==
    StateChecked(cfg, cb) /\ ~Truthy(CacheGet(c, time, cb.state))

\* (variant: only the client-error code 400 is taken as a failure)
TokenFailed_Only400(token_response) == token_response.code = 400

\* `if token_response.code != 200`: the token exchange is taken as failed
TokenFailed(token_response) == token_response.code # 200

\* (variant: a failed exchange is reported with the failure factory)
PropagateTokenFailure_AsFailure(token_response) == failure(token_response.message)

\* the response login builds from a failed token response
PropagateTokenFailure(token_response) ==
    AuthResponse(token_response.code, NoData, token_response.status,
                 token_response.message)

\* (variant: the validated state is consumed, i.e. deleted after the lookup)
LoginCache_ConsumesState(c, time, cb) ==
    [k \in DOMAIN c \ {cb.state} |-> c[k]]

\* the cache as login leaves it: login reads the state entry and writes nothing
LoginCache(c, time, cb) == c

\* BaseAuthSource.login
login(src, cfg, callback, kwargs, c, time, env) ==
    LET cb == AuthCallbackBuild(callback)
        tr == get_access_token(src, cfg, cb, c, time, env)
        ur == get_user_info(src, cfg, tr.resp.data, kwargs, env)
        base == [checked |-> StateChecked(cfg, cb), rejected |-> FALSE,
                 kind |-> "response", resp |-> NoResponse, exc |-> None,
                 tokenCalls |-> 1, userCalls |-> 0, tokenRet |-> tr,
                 userToken |-> NoData, userKwargs |-> NoKwargs,
                 http |-> tr.http, cache |-> LoginCache(c, time, cb)]
    IN  IF StateRejected(cfg, cb, c, time)
        THEN [base EXCEPT !.rejected = TRUE, !.tokenCalls = 0, !.tokenRet = NotInvoked,
                          !.http = 0,
                          !.resp = failure(<<"state mismatch or expired">>)]
        ELSE IF tr.kind = "raise"
        THEN [base EXCEPT !.kind = "raise", !.exc = tr.exc]
        ELSE IF TokenFailed(tr.resp)
        THEN [base EXCEPT !.resp = PropagateTokenFailure(tr.resp)]
        ELSE [base EXCEPT !.kind = ur.kind, !.resp = ur.resp, !.exc = ur.exc,
                          !.userCalls = 1, !.userToken = tr.resp.data,
                          !.userKwargs = kwargs, !.http = tr.http + ur.http]

\* AuthWechatMiniSource.login: reads code, encrypted_data and iv from the
\* callback map itself, makes no state lookup, does not read kwargs and calls
\* code_to_session and decrypt_user_info, not get_user_info
AuthWechatMiniSource_login(src, cfg, callback, kwargs, c, time, env) ==
    LET tr == AuthWechatMiniSource_code_to_session(cfg, callback.code, env)
        ur == AuthWechatMiniSource_decrypt_user_info(cfg, tr.resp.data,
                  callback.encrypted_data, callback.iv, env)
        base == [checked |-> FALSE, rejected |-> FALSE,
                 kind |-> "response", resp |-> NoResponse, exc |-> None,
                 tokenCalls |-> 1, userCalls |-> 0, tokenRet |-> tr,
                 userToken |-> NoData, userKwargs |-> NoKwargs,
                 http |-> tr.http, cache |-> c]
    IN  IF ~Truthy(callback.code) \/ ~Truthy(callback.encrypted_data)
           \/ ~Truthy(callback.iv)
        THEN [base EXCEPT !.tokenCalls = 0, !.tokenRet = NotInvoked, !.http = 0,
                          !.resp = failure(<<"missing parameter">>)]
        ELSE IF tr.kind = "raise"
        THEN [base EXCEPT !.kind = "raise", !.exc = tr.exc]
        ELSE IF tr.resp.code # 200
        THEN [base EXCEPT !.resp = AuthResponse(tr.resp.code, NoData, tr.resp.status,
                                                tr.resp.message)]
        ELSE [base EXCEPT !.kind = ur.kind, !.resp = ur.resp, !.exc = ur.exc,
                          !.http = tr.http + ur.http]

\* (variant: every adapter runs the login of the base class)
AuthRequest_login_BaseOnly(src, cfg, callback, kwargs, c, time, env) ==
    login(src, cfg, callback, kwargs, c, time, env)

\* AuthRequest.login: self.auth_source.login(callback, **kwargs), the login
\* of the adapter's class
AuthRequest_login(src, cfg, callback, kwargs, c, time, env) ==
    IF src = "wechat_mini"
    THEN AuthWechatMiniSource_login(src, cfg, callback, kwargs, c, time, env)
    ELSE login(src, cfg, callback, kwargs, c, time, env)

\* BaseAuthSource.refresh
refresh(src, cfg, token, env) == refresh_token(src, cfg, token, env)

\* BaseAuthSource.revoke
revoke(src, cfg, token, env) == revoke_token(src, cfg, token, env)

(***************************************************************************)
(* DefaultCacheStore                                                       *)
(* Its state is the class attribute _instance (None, or the identity of a   *)
(* store) and the number of MemoryCacheStore objects it has built.          *)
(***************************************************************************)
\* get_instance builds at most this many stores in a run of the model
MaxCreated == 2

\* the identity of the n-th MemoryCacheStore() that get_instance builds
MemoryStore(n) == "MemoryCacheStore#" \o ToString(n)

\* stores a caller builds and hands to set_instance
CustomStores == {"custom1", "custom2"}

NoDefault == [_instance |-> None, created |-> 0]

\* (variant: every call builds a store)
DefaultCacheStore_get_instance_AlwaysNew(d) ==
    [default |-> [_instance |-> MemoryStore(d.created + 1), created |-> d.created + 1],
     result  |-> MemoryStore(d.created + 1)]

\* DefaultCacheStore.get_instance
DefaultCacheStore_get_instance(d) ==
    IF d._instance = None
    THEN [default |-> [_instance |-> MemoryStore(d.created + 1), created |-> d.created + 1],
          result  |-> MemoryStore(d.created + 1)]
    ELSE [default |-> d, result |-> d._instance]

\* DefaultCacheStore.set_instance
DefaultCacheStore_set_instance(d, instance) == [d EXCEPT !._instance = instance]

(***************************************************************************)
(* AuthRequestBuilder                                                      *)
(***************************************************************************)
\* provider names a caller passes to source(): none, the empty string, names
\* with an adapter (one in mixed case), a name that has a descriptor and no
\* adapter module, a name without descriptor, and the name of a provider the
\* caller defines
ProviderNames ==
    {None, "", "github", "GitHub", "wechat_mini", "gitlab", "nosuch", "custom"}

\* str.upper, str.lower and the class-name part
\* ''.join(p.title() for p in name.split('_')), for the names of the model
str_upper(name) ==
    CASE name \in {"github", "GitHub"} -> "GITHUB"
      [] name = "wechat_mini" -> "WECHAT_MINI"
      [] name = "gitlab" -> "GITLAB"
      [] name = "nosuch" -> "NOSUCH"
      [] name = "custom" -> "CUSTOM"
      [] OTHER -> name

str_lower(name) == IF name = "GitHub" THEN "github" ELSE name

class_name(source_name) ==
    CASE source_name = "github" -> "Github"
      [] source_name = "wechat_mini" -> "WechatMini"
      [] source_name = "gitlab" -> "Gitlab"
      [] source_name = "nosuch" -> "Nosuch"
      [] source_name = "custom" -> "Custom"
      [] OTHER -> source_name

\* the descriptors AuthDefaultSource defines, by attribute name
AuthDefaultSource ==
    {
     "GITHUB", "GITEE", "WEIBO", "DINGTALK", "BAIDU", "CODING",
     "TENCENT_CLOUD", "OSCHINA", "ALIPAY", "QQ", "WECHAT", "WECHAT_OPEN",
     "WECHAT_ENTERPRISE", "WECHAT_MINI", "TAOBAO", "GOOGLE", "FACEBOOK",
     "DOUYIN", "LINKEDIN", "XIAOMI", "MICROSOFT", "TOUTIAO", "TEAMBITION",
     "STACK_OVERFLOW", "PINTEREST", "RENREN", "HUAWEI", "KUJIALE",
     "GITLAB", "MEITUAN", "ELEME", "TWITTER", "FEISHU", "JD", "ALIYUN",
     "XMLY", "AMAZON", "SLACK", "LINE", "ZXXK"}

\* the modules of senweaver_oauth.source with the classes each defines
SourceClasses ==
    {
     <<"alipay", "AuthAlipaySource">>, <<"amazon", "AuthAmazonSource">>,
     <<"baidu", "AuthBaiduSource">>, <<"base", "BaseAuthSource">>,
     <<"coding", "AuthCodingSource">>,
     <<"dingtalk", "AuthDingtalkSource">>,
     <<"douyin", "AuthDouyinSource">>, <<"eleme", "AuthElemeSource">>,
     <<"facebook", "AuthFacebookSource">>,
     <<"feishu", "AuthFeishuSource">>, <<"gitee", "AuthGiteeSource">>,
     <<"github", "AuthGithubSource">>, <<"google", "AuthGoogleSource">>,
     <<"huawei", "AuthHuaweiSource">>, <<"jd", "AuthJdSource">>,
     <<"kujiale", "AuthKujialeSource">>, <<"line", "AuthLineSource">>,
     <<"linkedin", "AuthLinkedinSource">>,
     <<"meituan", "AuthMeituanSource">>,
     <<"microsoft", "AuthMicrosoftSource">>,
     <<"oschina", "AuthOschinaSource">>,
     <<"pinterest", "AuthPinterestSource">>, <<"qq", "AuthQqSource">>,
     <<"renren", "AuthRenrenSource">>, <<"slack", "AuthSlackSource">>,
     <<"stack_overflow", "AuthStackOverflowSource">>,
     <<"taobao", "AuthTaobaoSource">>,
     <<"teambition", "AuthTeambitionSource">>,
     <<"tencent_cloud", "AuthTencentCloudSource">>,
     <<"toutiao", "AuthToutiaoSource">>,
     <<"twitter", "AuthTwitterSource">>, <<"wechat", "AuthWechatSource">>,
     <<"wechat_enterprise", "AuthWechatEnterpriseSource">>,
     <<"wechat_mini", "AuthWechatMiniSource">>,
     <<"wechat_open", "AuthWechatOpenSource">>,
     <<"weibo", "AuthWeiboSource">>, <<"xmly", "AuthXmlySource">>,
     <<"zxxk", "AuthZxxkSource">>}

\* a class of descriptors the caller defines, by its attribute names, and the
\* adapter classes the caller defines, with the module that holds them
CustomAuthSource == {"CUSTOM"}

CallerClasses == {<<"__main__", "AuthCustomSource">>}

\* lists a caller hands to extend_source()
ExtendSourceLists == {<<>>, <<CustomAuthSource>>}

\* AuthDefaultSource.get_source: the descriptor, or None
AuthDefaultSource_get_source(source_name) ==
    IF str_upper(source_name) \in AuthDefaultSource THEN str_upper(source_name) ELSE None

\* AuthConfig values a caller hands to auth_config(); NoConfig is None
NoConfig == [client_id |-> None, redirect_uri |-> None, scope |-> None,
             ignore_check_state |-> FALSE]

StaticConfig == [client_id |-> "cid", redirect_uri |-> "http://app/cb", scope |-> None,
                 ignore_check_state |-> FALSE]

\* configuration functions a caller hands to auth_config_function(); None is
\* no function; "per_source" builds a configuration from the name it is given
ConfigFunctions == {None, "per_source"}

ApplyConfigFunction(function, source_name) ==
    [client_id |-> "cid_of_" \o source_name, redirect_uri |-> "http://app/cb",
     scope |-> None, ignore_check_state |-> FALSE]

\* AuthRequestBuilder.__init__
NewBuilder ==
    [_source |-> None, _auth_config |-> NoConfig, _auth_config_function |-> None,
     _extend_sources |-> <<>>]

\* (variant: the configuration function is asked first)
AuthRequestBuilder_get_auth_config_FunctionFirst(b) ==
    IF b._auth_config_function # None
    THEN [kind |-> "config", config |-> ApplyConfigFunction(b._auth_config_function, b._source),
          calls |-> <<b._source>>]
    ELSE IF b._auth_config # NoConfig
    THEN [kind |-> "config", config |-> b._auth_config, calls |-> <<>>]
    ELSE [kind |-> "raise", config |-> NoConfig, calls |-> <<>>]

\* (variant: a missing configuration is passed on as None)
AuthRequestBuilder_get_auth_config_NoneAllowed(b) ==
    IF b._auth_config # NoConfig
    THEN [kind |-> "config", config |-> b._auth_config, calls |-> <<>>]
    ELSE IF b._auth_config_function # None
    THEN [kind |-> "config", config |-> ApplyConfigFunction(b._auth_config_function, b._source),
          calls |-> <<b._source>>]
    ELSE [kind |-> "config", config |-> NoConfig, calls |-> <<>>]

\* AuthRequestBuilder._get_auth_config: the configuration, with the arguments
\* the configuration function was called with; or ValueError
AuthRequestBuilder_get_auth_config(b) ==
    IF b._auth_config # NoConfig
    THEN [kind |-> "config", config |-> b._auth_config, calls |-> <<>>]
    ELSE IF b._auth_config_function # None
    THEN [kind |-> "config", config |-> ApplyConfigFunction(b._auth_config_function, b._source),
          calls |-> <<b._source>>]
    ELSE [kind |-> "raise", config |-> NoConfig, calls |-> <<>>]

\* AuthRequestBuilder._get_auth_source: the built-in descriptor, else the
\* attribute of that name of the first extension class that has one, else None
AuthRequestBuilder_get_auth_source(b) ==
    IF AuthDefaultSource_get_source(b._source) # None
    THEN AuthDefaultSource_get_source(b._source)
    ELSE IF \E i \in DOMAIN b._extend_sources :
                str_upper(b._source) \in b._extend_sources[i]
    THEN str_upper(b._source)
    ELSE None

\* AuthRequestBuilder._get_auth_source_class: the class Auth<Name>Source of
\* the module senweaver_oauth.source.<name>, or None (the second import, of
\* auth_<name>_source, finds no module)
AuthRequestBuilder_get_auth_source_class(b) ==
    LET source_name == str_lower(b._source)
        cls == "Auth" \o class_name(source_name) \o "Source"
    IN  IF <<source_name, cls>> \in SourceClasses THEN cls ELSE None

\* the engine build returns: an AuthRequest over an adapter
NoEngine == [adapter |-> None, config |-> NoConfig, cache_store |-> None]

\* what build hands back: the engine or the message of the ValueError, the
\* arguments the configuration function was called with, and the
\* DefaultCacheStore as the adapter's constructor leaves it
BuildRaised(message, calls, d) ==
    [kind |-> "raise", exc |-> "ValueError", message |-> message, engine |-> NoEngine,
     calls |-> calls, default |-> d]

\* AuthRequestBuilder.build; the adapter's constructor (BaseAuthSource.__init__)
\* takes its store from DefaultCacheStore.get_instance()
AuthRequestBuilder_build(b, d) ==
    LET cr  == AuthRequestBuilder_get_auth_config(b)
        cls == AuthRequestBuilder_get_auth_source_class(b)
        gi  == DefaultCacheStore_get_instance(d)
    IN  IF ~Truthy(b._source) THEN BuildRaised("source empty", <<>>, d)
        ELSE IF cr.kind = "raise" THEN BuildRaised("config empty", cr.calls, d)
        ELSE IF AuthRequestBuilder_get_auth_source(b) = None
        THEN BuildRaised("source not found", cr.calls, d)
        ELSE IF cls = None THEN BuildRaised("source class not found", cr.calls, d)
        ELSE [kind |-> "engine", exc |-> None, message |-> None,
              engine |-> [adapter |-> cls, config |-> cr.config, cache_store |-> gi.result],
              calls |-> cr.calls, default |-> gi.default]

(***************************************************************************)
(* State                                                                   *)
(***************************************************************************)
VARIABLES
    source,       \* the adapter of the engine (self.source.name)
    config,       \* its AuthConfig (self.config)
    storeTtl,     \* MemoryCacheStore.ttl of its cache store
    storeMaxsize, \* maxsize of the TTLCache of its cache store
    now,          \* the wall clock, in seconds
    cache,        \* the TTLCache of the store (self.cache_store.cache)
    accepted,     \* history: the state values whose check a login has passed
    shadow,       \* history: for each key its latest set through the store's
                  \* interface, unless a delete or a clear has followed
    default,      \* DefaultCacheStore: _instance and the stores it has built
    builder,      \* the fields of an AuthRequestBuilder
    last,         \* the call that has just returned: its arguments and outcome
    logins,       \* the calls in progress where threads run side by side, one
                  \* entry per thread
    origin        \* history: for each key of the cache the adapter (provider and
                  \* client id) that set it last

vars == <<source, config, storeTtl, storeMaxsize, now, cache, accepted, shadow,
          default, builder, last, logins, origin>>

\* what a call on the engine leaves alone besides the cache and the history
engineFrame == <<source, config, storeTtl, storeMaxsize, shadow, default, builder,
                 logins, origin>>

NoEnv == [token |-> None, user |-> None, errcode |-> 0]

NoCallback == [code |-> None, auth_code |-> None, state |-> None, oauth_token |-> None,
               encrypted_data |-> None, iv |-> None]

NoShadow == [k \in {} |-> [val |-> None, setAt |-> 0, timeout |-> NoTimeout]]

\* no thread is inside a login call
NoLogins == <<>>

\* nothing has been set in the cache
NoOrigin == <<>>

\* no call outcome is pending: the engine is between two calls
Idle ==
    [op |-> "idle", callback |-> NoCallback, kwargs |-> NoKwargs, state |-> None,
     arg |-> None, kind |-> "none", resp |-> NoResponse, exc |-> None, url |-> NoUrl,
     params |-> <<>>, writes |-> <<>>,
     checked |-> FALSE, rejected |-> FALSE, replay |-> FALSE, cached |-> FALSE,
     env |-> NoEnv, tokenCalls |-> 0, userCalls |-> 0, tokenRet |-> NotInvoked,
     userToken |-> NoData, userKwargs |-> NoKwargs, http |-> 0,
     key |-> None, value |-> None, timeout |-> NoTimeout, result |-> None,
     before |-> NoDefault, engine |-> NoEngine, message |-> None, calls |-> <<>>,
     data |-> NoMap, built |-> NoCallbackObject, args |-> <<>>, out |-> NoOut]

\* an engine is built over one adapter and one configuration; its store is the
\* default MemoryCacheStore() or one built with another ttl
Init ==
    /\ source \in Sources
    /\ config \in Configs
    /\ storeTtl \in StoreTtls
    /\ storeMaxsize = maxsize
    /\ now = 0
    /\ cache = EmptyCache
    /\ accepted = {}
    /\ shadow = NoShadow
    /\ default = NoDefault
    /\ builder = NewBuilder
    /\ last = Idle
    /\ logins = NoLogins
    /\ origin = NoOrigin

\* engine.authorize(state)
Authorize ==
    \E state \in ExplicitStates, uuid \in Uuids, env \in Envs :
        LET r == authorize(source, config, state, uuid, cache, now, storeTtl,
                           storeMaxsize, env)
        IN  /\ last = Idle
            /\ cache' = r.cache
            /\ last' = [Idle EXCEPT !.op = "authorize", !.arg = state, !.state = r.state,
                                    !.kind = r.kind, !.url = r.url, !.exc = r.exc,
                                    !.params = r.params, !.writes = r.writes]
            /\ UNCHANGED <<now, accepted, engineFrame>>

\* what the engine's login, called with `callback` and the keyword arguments
\* `kwargs`, leaves: the cache, the history and the outcome of the call
LoginCall(callback, kwargs, env) ==
    LET r == AuthRequest_login(source, config, callback, kwargs, cache, now, env)
    IN  [cache    |-> r.cache,
         accepted |-> IF r.checked /\ ~r.rejected
                      THEN accepted \cup {callback.state} ELSE accepted,
         last     |-> [Idle EXCEPT !.op = "login", !.callback = callback,
                                   !.kwargs = kwargs,
                                   !.state = callback.state,
                                   !.kind = r.kind, !.resp = r.resp, !.exc = r.exc,
                                   !.checked = r.checked, !.rejected = r.rejected,
                                   !.replay = callback.state \in accepted,
                                   !.cached = Truthy(CacheGet(cache, now, callback.state)),
                                   !.env = env,
                                   !.tokenCalls = r.tokenCalls, !.userCalls = r.userCalls,
                                   !.tokenRet = r.tokenRet, !.userToken = r.userToken,
                                   !.userKwargs = r.userKwargs, !.http = r.http]]

\* engine.login(callback)
Login ==
    \E callback \in Callbacks, env \in Envs :
        LET r == LoginCall(callback, NoKwargs, env)
        IN  /\ last = Idle
            /\ cache' = r.cache
            /\ accepted' = r.accepted
            /\ last' = r.last
            /\ UNCHANGED <<now, engineFrame>>

\* engine.login(callback, **kwargs)
LoginKwargs ==
    \E callback \in MiniCallbacks, kwargs \in KwargSets, env \in Envs :
        LET r == LoginCall(callback, kwargs, env)
        IN  /\ last = Idle
            /\ cache' = r.cache
            /\ accepted' = r.accepted
            /\ last' = r.last
            /\ UNCHANGED <<now, engineFrame>>

\* engine.refresh(token)
Refresh ==
    \E token \in TokenArgs, env \in Envs :
        LET r == refresh(source, config, token, env)
        IN  /\ last = Idle
            /\ last' = [Idle EXCEPT !.op = "refresh", !.arg = token, !.kind = r.kind,
                                    !.env = env,
                                    !.resp = r.resp, !.exc = r.exc, !.http = r.http]
            /\ UNCHANGED <<now, cache, accepted, engineFrame>>

\* engine.revoke(token)
Revoke ==
    \E token \in TokenArgs, env \in Envs :
        LET r == revoke(source, config, token, env)
        IN  /\ last = Idle
            /\ last' = [Idle EXCEPT !.op = "revoke", !.arg = token, !.kind = r.kind,
                                    !.env = env,
                                    !.resp = r.resp, !.exc = r.exc, !.http = r.http]
            /\ UNCHANGED <<now, cache, accepted, engineFrame>>

\* the caller has taken the outcome of the call; the next call can start
Return ==
    /\ last # Idle
    /\ last' = Idle
    /\ UNCHANGED <<now, cache, accepted, engineFrame>>

\* time passes between two calls
Tick ==
    \E d \in ClockSteps :
        /\ last = Idle
        /\ now + d <= MaxClock
        /\ now' = now + d
        /\ UNCHANGED <<cache, accepted, engineFrame, last>>

Next == Authorize \/ Login \/ Refresh \/ Revoke \/ Return \/ Tick

Spec == Init /\ [][Next]_vars

(***************************************************************************)
(* The cache store by itself: get / set / delete / clear on one            *)
(* MemoryCacheStore, built with the default or with a small maxsize.        *)
(***************************************************************************)
\* keys, values and timeouts of the calls; StateTimeout is the timeout of the
\* call authorize makes
CacheKeys == {"k1", "k2", "k3"}

CacheValues == {"v1", "v2"}

Timeouts == {NoTimeout, StateTimeout}

InitCache ==
    /\ source = "github"
    /\ config = StaticConfig
    /\ storeTtl \in StoreTtls
    /\ storeMaxsize \in {2, maxsize}
    /\ now = 0
    /\ cache = EmptyCache
    /\ accepted = {}
    /\ shadow = NoShadow
    /\ default = NoDefault
    /\ builder = NewBuilder
    /\ last = Idle
    /\ logins = NoLogins
    /\ origin = NoOrigin

\* cache_store.get(key)
CacheStoreGet ==
    \E key \in CacheKeys :
        /\ last = Idle
        /\ last' = [Idle EXCEPT !.op = "get", !.key = key,
                                !.result = CacheGet(cache, now, key)]
        /\ UNCHANGED <<now, cache, accepted, engineFrame>>

\* cache_store.set(key, value) and cache_store.set(key, value, timeout)
CacheStoreSet ==
    \E key \in CacheKeys, value \in CacheValues, timeout \in Timeouts :
        /\ last = Idle
        /\ cache' = CacheSet(cache, now, storeTtl, storeMaxsize, key, value, timeout)
        /\ shadow' = [k \in DOMAIN shadow \cup {key} |->
                         IF k = key
                         THEN [val |-> value, setAt |-> now, timeout |-> timeout]
                         ELSE shadow[k]]
        /\ last' = [Idle EXCEPT !.op = "set", !.key = key, !.value = value,
                                !.timeout = timeout]
        /\ UNCHANGED <<now, accepted, source, config, storeTtl, storeMaxsize,
                       default, builder, logins, origin>>

\* cache_store.delete(key)
CacheStoreDelete ==
    \E key \in CacheKeys :
        /\ last = Idle
        /\ cache' = CacheDelete(cache, now, key)
        /\ shadow' = [k \in DOMAIN shadow \ {key} |-> shadow[k]]
        /\ last' = [Idle EXCEPT !.op = "delete", !.key = key]
        /\ UNCHANGED <<now, accepted, source, config, storeTtl, storeMaxsize,
                       default, builder, logins, origin>>

\* cache_store.clear()
CacheStoreClear ==
    /\ last = Idle
    /\ cache' = CacheClear(cache)
    /\ shadow' = NoShadow
    /\ last' = [Idle EXCEPT !.op = "clear"]
    /\ UNCHANGED <<now, accepted, source, config, storeTtl, storeMaxsize,
                   default, builder, logins, origin>>

NextCache ==
    CacheStoreGet \/ CacheStoreSet \/ CacheStoreDelete \/ CacheStoreClear
        \/ Return \/ Tick

SpecCache == InitCache /\ [][NextCache]_vars

(***************************************************************************)
(* The engine over a small store: the calls are those of Spec, the store   *)
(* is a MemoryCacheStore(maxsize=n) for a small n, so that the flows in     *)
(* flight fill it as more than 1000 flows fill the default store.           *)
(***************************************************************************)
InitSmallStore ==
    /\ source \in {"github", "wechat", "twitter"}
    /\ config = StaticConfig
    /\ storeTtl = StateTimeout
    /\ storeMaxsize \in SmallMaxsizes
    /\ now = 0
    /\ cache = EmptyCache
    /\ accepted = {}
    /\ shadow = NoShadow
    /\ default = NoDefault
    /\ builder = NewBuilder
    /\ last = Idle
    /\ logins = NoLogins
    /\ origin = NoOrigin

SpecSmallStore == InitSmallStore /\ [][Next]_vars

(***************************************************************************)
(* The builder and the default store: a caller fills an                    *)
(* AuthRequestBuilder and calls build, and callers read and replace the    *)
(* process-wide DefaultCacheStore.                                         *)
(***************************************************************************)
InitBuilder ==
    /\ source = "github"
    /\ config = StaticConfig
    /\ storeTtl = StateTimeout
    /\ storeMaxsize = maxsize
    /\ now = 0
    /\ cache = EmptyCache
    /\ accepted = {}
    /\ shadow = NoShadow
    /\ default = NoDefault
    /\ builder = NewBuilder
    /\ last = Idle
    /\ logins = NoLogins
    /\ origin = NoOrigin

builderFrame == <<source, config, storeTtl, storeMaxsize, now, cache, accepted, shadow,
                  logins, origin>>

\* AuthRequestBuilder.source
BuilderSource ==
    \E name \in ProviderNames :
        /\ last = Idle
        /\ builder' = [builder EXCEPT !._source = name]
        /\ UNCHANGED <<builderFrame, default, last>>

\* AuthRequestBuilder.auth_config
BuilderAuthConfig ==
    \E cfg \in {NoConfig, StaticConfig} :
        /\ last = Idle
        /\ builder' = [builder EXCEPT !._auth_config = cfg]
        /\ UNCHANGED <<builderFrame, default, last>>

\* AuthRequestBuilder.auth_config_function
BuilderAuthConfigFunction ==
    \E function \in ConfigFunctions :
        /\ last = Idle
        /\ builder' = [builder EXCEPT !._auth_config_function = function]
        /\ UNCHANGED <<builderFrame, default, last>>

\* AuthRequestBuilder.extend_source
BuilderExtendSource ==
    \E sources \in ExtendSourceLists :
        /\ last = Idle
        /\ builder' = [builder EXCEPT !._extend_sources = sources]
        /\ UNCHANGED <<builderFrame, default, last>>

\* AuthRequestBuilder.build
Build ==
    /\ last = Idle
    /\ default._instance # None \/ default.created < MaxCreated
    /\ LET r == AuthRequestBuilder_build(builder, default)
       IN  /\ default' = r.default
           /\ last' = [Idle EXCEPT !.op = "build", !.kind = r.kind, !.exc = r.exc,
                                   !.message = r.message, !.engine = r.engine,
                                   !.calls = r.calls, !.before = default]
    /\ UNCHANGED <<builderFrame, builder>>

\* DefaultCacheStore.get_instance()
GetInstance ==
    /\ last = Idle
    /\ default._instance # None \/ default.created < MaxCreated
    /\ LET r == DefaultCacheStore_get_instance(default)
       IN  /\ default' = r.default
           /\ last' = [Idle EXCEPT !.op = "get_instance", !.result = r.result,
                                   !.before = default]
    /\ UNCHANGED <<builderFrame, builder>>

\* DefaultCacheStore.set_instance(instance)
SetInstance ==
    \E instance \in CustomStores :
        /\ last = Idle
        /\ default' = DefaultCacheStore_set_instance(default, instance)
        /\ last' = [Idle EXCEPT !.op = "set_instance", !.value = instance,
                                !.before = default]
        /\ UNCHANGED <<builderFrame, builder>>

\* the tearDown of the DefaultCacheStore tests: _instance = None
TearDown ==
    /\ last = Idle
    /\ default._instance # None
    /\ default' = [default EXCEPT !._instance = None]
    /\ UNCHANGED <<builderFrame, builder, last>>

NextBuilder ==
    \/ BuilderSource \/ BuilderAuthConfig \/ BuilderAuthConfigFunction
    \/ BuilderExtendSource
    \/ Build \/ GetInstance \/ SetInstance \/ TearDown \/ Return

SpecBuilder == InitBuilder /\ [][NextBuilder]_vars

(***************************************************************************)
(* Logins with keyword arguments: an engine over an adapter that uses      *)
(* BaseAuthSource.login and one over the mini-program adapter, called with *)
(* callback maps and keyword arguments that may carry the encrypted user   *)
(* data.                                                                   *)
(***************************************************************************)
\* the configurations of these engines: the state check on, or disabled
KwargsConfigs == {[StaticConfig EXCEPT !.ignore_check_state = b] : b \in BOOLEAN}

InitKwargs ==
    /\ source \in {"github", "wechat_mini"}
    /\ config \in KwargsConfigs
    /\ storeTtl = StateTimeout
    /\ storeMaxsize = maxsize
    /\ now = 0
    /\ cache = EmptyCache
    /\ accepted = {}
    /\ shadow = NoShadow
    /\ default = NoDefault
    /\ builder = NewBuilder
    /\ last = Idle
    /\ logins = NoLogins
    /\ origin = NoOrigin

NextKwargs == LoginKwargs \/ Return \/ Tick

SpecKwargs == InitKwargs /\ [][NextKwargs]_vars

(***************************************************************************)
(* The library used without an engine: callers build the value objects and *)
(* call the helpers of the adapters directly.                              *)
(***************************************************************************)
InitLibrary == InitBuilder

libraryFrame == <<builderFrame, default, builder>>

\* AuthCallback.build(data)
CallbackBuild ==
    \E data \in CallbackMaps :
        /\ last = Idle
        /\ last' = [Idle EXCEPT !.op = "callback_build", !.data = data,
                                !.built = AuthCallback_build(data)]
        /\ UNCHANGED libraryFrame

\* AuthConfig(client_id=..., client_secret=..., redirect_uri=...)
NewAuthConfig ==
    \E args \in ConfigArgs :
        /\ last = Idle
        /\ last' = [Idle EXCEPT !.op = "auth_config", !.args = args,
                                !.out = AuthConfig_new(args)]
        /\ UNCHANGED libraryFrame

\* adapter.get_user_info(token) answered by the provider with `reply`
GetUserInfo ==
    \E src \in IdentitySources, reply \in UserReplies, at \in {"AT1", "AT2"} :
        /\ last = Idle
        /\ last' = [Idle EXCEPT !.op = "get_user_info",
                                !.args = [src |-> src, reply |-> reply, at |-> at],
                                !.out = UserOfReply(src, reply, AuthToken(at, None))]
        /\ UNCHANGED libraryFrame

\* AuthGender.get_gender(raw) / adapter._get_gender(raw)
GetGender ==
    \E mapping \in GenderMappings, raw \in RawGenders :
        /\ last = Idle
        /\ last' = [Idle EXCEPT !.op = "get_gender",
                                !.args = [mapping |-> mapping, raw |-> raw],
                                !.out = get_gender(mapping, raw)]
        /\ UNCHANGED libraryFrame

\* adapter._sign(params)
Sign ==
    \E adapter \in {"jd", "zxxk"}, params \in ParamLists :
        /\ last = Idle
        /\ last' = [Idle EXCEPT !.op = "sign",
                                !.args = [adapter |-> adapter, params |-> params],
                                !.out = SignOf(adapter, params)]
        /\ UNCHANGED libraryFrame

\* AuthAlipaySource._sign(params) of an adapter whose client_secret is `key`
SignRsa ==
    \E key \in RsaKeys, params \in AlipayParamLists :
        /\ last = Idle
        /\ last' = [Idle EXCEPT !.op = "sign_rsa",
                                !.args = [key |-> key, params |-> params],
                                !.out = AuthAlipaySource_sign(key, params)]
        /\ UNCHANGED libraryFrame

\* AuthZxxkSource.aes_encrypt(text, key)
AesEncrypt ==
    \E text \in AesTexts, key \in AesKeys :
        /\ last = Idle
        /\ last' = [Idle EXCEPT !.op = "aes_encrypt",
                                !.args = [text |-> text, key |-> key],
                                !.out = AuthZxxkSource_aes_encrypt(text, key)]
        /\ UNCHANGED libraryFrame

\* AuthToken objects handed to the user-info step and to refresh, by the
\* fields these steps read or write
Credentials ==
    [access_token : {"AT1"}, open_id : {None, "openid1"}, refresh_token : {None, "RT1"}]

NoCredential == [access_token |-> None, open_id |-> None, refresh_token |-> None]

\* what the provider answers: the transport raises, the reply carries the
\* provider's error marker, or it is a good reply, with or without open_id
StepReplies ==
    [kind : {"raise", "error", "ok"}, open_id : {None, "openid2"}]

\* the outcome of a step on a token object: the response (or the exception),
\* the received token object as the step leaves it, and the token of the
\* response when the step builds one
StepOutcome(kind, code, token, new) ==
    [kind |-> kind, code |-> code, token |-> token, new |-> new]

\* AuthZxxkSource.get_user_info: `token.open_id = response.get("open_id")`
AuthZxxkSource_get_user_info(token, reply) ==
    IF reply.kind = "raise" THEN StepOutcome("response", 500, token, NoCredential)
    ELSE IF reply.kind = "error" THEN StepOutcome("response", 400, token, NoCredential)
    ELSE StepOutcome("response", 200, [token EXCEPT !.open_id = reply.open_id],
                     NoCredential)

\* AuthMeituanSource.get_user_info: reads token.access_token
AuthMeituanSource_get_user_info(token, reply) ==
    IF reply.kind = "raise" THEN StepOutcome("response", 500, token, NoCredential)
    ELSE IF reply.kind = "error" THEN StepOutcome("response", 400, token, NoCredential)
    ELSE StepOutcome("response", 200, token, NoCredential)

\* AuthJdSource.get_user_info: reads token.access_token and token.open_id; no
\* try/except
AuthJdSource_get_user_info(token, reply) ==
    IF reply.kind = "raise" THEN StepOutcome("raise", 0, token, NoCredential)
    ELSE IF reply.kind = "error" THEN StepOutcome("response", 400, token, NoCredential)
    ELSE StepOutcome("response", 200, token, NoCredential)

\* AuthJdSource.refresh_token: a new AuthToken with the open_id of the old one
AuthJdSource_refresh_token(token, reply) ==
    IF ~Truthy(token.refresh_token)
    THEN StepOutcome("response", 400, token, NoCredential)
    ELSE IF reply.kind = "raise" THEN StepOutcome("raise", 0, token, NoCredential)
    ELSE IF reply.kind = "error" THEN StepOutcome("response", 400, token, NoCredential)
    ELSE StepOutcome("response", 200, token,
                     [access_token |-> "AT2", open_id |-> token.open_id,
                      refresh_token |-> token.refresh_token])

\* the steps that receive a token object
TokenSteps == {<<"zxxk", "get_user_info">>, <<"meituan", "get_user_info">>,
               <<"jd", "get_user_info">>, <<"jd", "refresh_token">>}

StepOn(step, token, reply) ==
    CASE step = <<"zxxk", "get_user_info">> -> AuthZxxkSource_get_user_info(token, reply)
      [] step = <<"meituan", "get_user_info">> -> AuthMeituanSource_get_user_info(token, reply)
      [] step = <<"jd", "get_user_info">> -> AuthJdSource_get_user_info(token, reply)
      [] step = <<"jd", "refresh_token">> -> AuthJdSource_refresh_token(token, reply)

\* adapter.get_user_info(token) / adapter.refresh_token(token)
TokenStep ==
    \E step \in TokenSteps, token \in Credentials, reply \in StepReplies :
        /\ last = Idle
        /\ last' = [Idle EXCEPT !.op = "token_step",
                                !.args = [step |-> step, token |-> token, reply |-> reply],
                                !.out = StepOn(step, token, reply)]
        /\ UNCHANGED libraryFrame

\* AuthToken.expires_in values: None (has |-> FALSE) or a number of seconds
ExpiresIns ==
    {[has |-> FALSE, val |-> 0]} \cup [has : {TRUE}, val : {-1, 0, 1, 7200}]

\* create_time of a token and the wall clock at the call, in seconds
TokenTimes == {0, 100, 7300, 7301}

\* AuthToken.expired: after the guard the code evaluates
\* `datetime.now() > self.create_time.timestamp() + self.expires_in`, an
\* order comparison of a datetime with a float, which raises TypeError
AuthToken_expired(expires_in, create_time, time) ==
    IF ~expires_in.has \/ expires_in.val <= 0
    THEN [kind |-> "bool", value |-> FALSE, exc |-> None]
    ELSE [kind |-> "raise", value |-> FALSE, exc |-> "TypeError"]

\* token.expired
TokenExpired ==
    \E expires_in \in ExpiresIns, create_time \in TokenTimes, time \in TokenTimes :
        /\ last = Idle
        /\ create_time <= time
        /\ last' = [Idle EXCEPT !.op = "expired",
                                !.args = [expires_in |-> expires_in,
                                          create_time |-> create_time, time |-> time],
                                !.out = AuthToken_expired(expires_in, create_time, time)]
        /\ UNCHANGED libraryFrame

\* state texts a caller passes to authorize and the callback brings back
RedisStateValues == {"s1", "u1", "0", "123", "true", "false", "null"}

\* the moments of the get, in seconds after the set
RedisGetTimes == {0, 100, 180}

\* RedisCacheStore.ttl, the default of the constructor
RedisTtl == 180

\* Python values, by type and text
PyStr(text) == [type |-> "str", text |-> text]

PyNone == [type |-> "NoneType", text |-> "None"]

\* json.loads of the text kept under a key: a JSON literal becomes a number,
\* a bool or None; any other text is no JSON (JSONDecodeError)
JsonLoads(text) ==
    CASE text \in {"0", "123"} -> [ok |-> TRUE, value |-> [type |-> "int", text |-> text]]
      [] text = "true" -> [ok |-> TRUE, value |-> [type |-> "bool", text |-> "True"]]
      [] text = "false" -> [ok |-> TRUE, value |-> [type |-> "bool", text |-> "False"]]
      [] text = "null" -> [ok |-> TRUE, value |-> PyNone]
      [] OTHER -> [ok |-> FALSE, value |-> PyNone]

\* truth value of a Python value (`if not state`)
PyTruthy(v) ==
    CASE v.type = "str" -> v.text # ""
      [] v.type = "int" -> v.text # "0"
      [] v.type = "bool" -> v.text = "True"
      [] OTHER -> FALSE

\* RedisCacheStore.set on an empty server: a str is stored as it is, under
\* the prefixed key, with ex=timeout, or ex=self.ttl when timeout is None
RedisCacheStore_set(prefix, key, value, timeout, time) ==
    [k \in {prefix \o key} |->
        [text |-> value,
         expires |-> time + (IF timeout = NoTimeout THEN RedisTtl ELSE timeout)]]

\* RedisCacheStore.get: None for a missing or expired key; else json.loads
\* of the text, and the text itself when it is no JSON
RedisCacheStore_get(server, prefix, key, time) ==
    IF prefix \o key \notin DOMAIN server \/ time >= server[prefix \o key].expires
    THEN PyNone
    ELSE LET parsed == JsonLoads(server[prefix \o key].text)
         IN  IF parsed.ok THEN parsed.value ELSE PyStr(server[prefix \o key].text)

\* cache_store.set(state, state, 180) of authorize, then, `at` seconds
\* later, `state = self.cache_store.get(callback_params.state)` of login
RedisSetGet ==
    \E value \in RedisStateValues, timeout \in {NoTimeout, StateTimeout},
       at \in RedisGetTimes :
        LET server == RedisCacheStore_set("senweaver:", value, value, timeout, 0)
            got == RedisCacheStore_get(server, "senweaver:", value, at)
        IN  /\ last = Idle
            /\ last' = [Idle EXCEPT !.op = "redis_set_get",
                                    !.args = [value |-> value, timeout |-> timeout,
                                              at |-> at],
                                    !.out = [got |-> got, passes |-> PyTruthy(got)]]
            /\ UNCHANGED libraryFrame

\* AuthWechatMiniSource.decrypt_user_info(token, encrypted_data, iv) on an
\* adapter configured with client_id
DecryptUserInfo ==
    \E client_id \in MiniClientIds, session_key \in MiniSessionKeys,
       e \in MiniEncrypted, iv \in MiniIvs :
        /\ last = Idle
        /\ last' = [Idle EXCEPT !.op = "decrypt_user_info",
                                !.args = [client_id |-> client_id,
                                          session_key |-> session_key,
                                          encrypted_data |-> e, iv |-> iv],
                                !.out = AuthWechatMiniSource_decrypt_payload(
                                            client_id, session_key, e, iv)]
        /\ UNCHANGED libraryFrame

NextLibrary ==
    \/ CallbackBuild \/ NewAuthConfig \/ GetUserInfo \/ GetGender \/ Sign
    \/ SignRsa \/ AesEncrypt \/ DecryptUserInfo \/ TokenStep \/ TokenExpired
    \/ RedisSetGet \/ Return

SpecLibrary == InitLibrary /\ [][NextLibrary]_vars

(***************************************************************************)
(* The default authorize parameters: get_authorize_params called on        *)
(* adapters that do not override it (github, coding, and the               *)
(* caller-defined source of the examples, which has no default scope).     *)
(***************************************************************************)
BaseParamSources == {"github", "coding", "custom"}

ScopeConfigs ==
    [client_id : {"cid"}, redirect_uri : {"http://app/cb"}, scope : {None, "", "read"},
     ignore_check_state : {FALSE}]

\* state arguments of get_authorize_params
StateArgs == {None, "", "s1"}

InitParams ==
    /\ source \in BaseParamSources
    /\ config \in ScopeConfigs
    /\ storeTtl = StateTimeout
    /\ storeMaxsize = maxsize
    /\ now = 0
    /\ cache = EmptyCache
    /\ accepted = {}
    /\ shadow = NoShadow
    /\ default = NoDefault
    /\ builder = NewBuilder
    /\ last = Idle
    /\ logins = NoLogins
    /\ origin = NoOrigin

\* adapter.get_authorize_params(state)
GetAuthorizeParams ==
    \E state \in StateArgs, uuid \in Uuids :
        LET r == BaseAuthSource_get_authorize_params(source, config, state, uuid, cache,
                                                     now, storeTtl, storeMaxsize, NoEnv)
        IN  /\ last = Idle
            /\ cache' = r.cache
            /\ last' = [Idle EXCEPT !.op = "get_authorize_params", !.arg = state,
                                    !.state = uuid, !.kind = r.kind, !.exc = r.exc,
                                    !.params = r.params, !.writes = r.writes]
            /\ UNCHANGED <<now, accepted, engineFrame>>

NextParams == GetAuthorizeParams \/ Return \/ Tick

SpecParams == InitParams /\ [][NextParams]_vars

(***************************************************************************)
(* Threads that build adapters side by side while DefaultCacheStore has no *)
(* instance yet.  BaseAuthSource.__init__ takes                            *)
(* DefaultCacheStore.get_instance() as its cache store; get_instance reads *)
(* _instance, assigns a new MemoryCacheStore when it read None, and reads  *)
(* _instance again to return it.  No lock is held, so a thread can be      *)
(* overtaken between any two of these steps.  In this specification        *)
(* `cache` maps the identity of each store built to its contents.          *)
(***************************************************************************)
Threads == {"t1", "t2"}

NoStores == [s \in {} |-> EmptyCache]

\* a thread about to call get_instance
NewThread == [pc |-> "check", store |-> None, wrote |-> None, looked |-> None,
              found |-> FALSE, visible |-> FALSE]

InitRace ==
    /\ source = "github"
    /\ config = StaticConfig
    /\ storeTtl = StateTimeout
    /\ storeMaxsize = maxsize
    /\ now = 0
    /\ cache = NoStores
    /\ accepted = {}
    /\ shadow = NoShadow
    /\ default = NoDefault
    /\ builder = NewBuilder
    /\ last = Idle
    /\ logins = [t \in Threads |-> NewThread]
    /\ origin = NoOrigin

raceFrame == <<source, config, storeTtl, storeMaxsize, now, accepted, shadow, builder,
               last, origin>>

\* get_instance: `if cls._instance is None`
GetInstanceCheck ==
    \E t \in Threads :
        /\ logins[t].pc = "check"
        /\ logins' = [logins EXCEPT ![t].pc = IF default._instance = None
                                              THEN "create" ELSE "return"]
        /\ UNCHANGED <<cache, default, raceFrame>>

\* get_instance: `cls._instance = MemoryCacheStore()`
GetInstanceCreate ==
    \E t \in Threads :
        /\ logins[t].pc = "create"
        /\ default.created < MaxCreated
        /\ default' = [_instance |-> MemoryStore(default.created + 1),
                       created |-> default.created + 1]
        /\ cache' = [s \in DOMAIN cache \cup {MemoryStore(default.created + 1)} |->
                        IF s \in DOMAIN cache THEN cache[s] ELSE EmptyCache]
        /\ logins' = [logins EXCEPT ![t].pc = "return"]
        /\ UNCHANGED raceFrame

\* get_instance: `return cls._instance`, and __init__ keeps the result as
\* self.cache_store
GetInstanceReturn ==
    \E t \in Threads :
        /\ logins[t].pc = "return"
        /\ logins' = [logins EXCEPT ![t].pc = "built", ![t].store = default._instance]
        /\ UNCHANGED <<cache, default, raceFrame>>

\* authorize(state) on the adapter of thread t:
\* self.cache_store.set(state, state, 180), twice
ThreadAuthorize ==
    \E t \in Threads, state \in {"s1"} :
        /\ logins[t].pc = "built"
        /\ logins[t].wrote = None
        /\ cache' = [cache EXCEPT ![logins[t].store] =
                        CacheSet(CacheSet(@, now, storeTtl, storeMaxsize, state, state,
                                          StateTimeout),
                                 now, storeTtl, storeMaxsize, state, state, StateTimeout)]
        /\ logins' = [logins EXCEPT ![t].wrote = state]
        /\ UNCHANGED <<default, raceFrame>>

\* the state check of login(callback) on the adapter of thread t:
\* self.cache_store.get(callback_params.state)
ThreadLogin ==
    \E t \in Threads, state \in {"s1"} :
        /\ logins[t].pc = "built"
        /\ logins[t].looked = None
        /\ logins' = [logins EXCEPT
               ![t].looked = state,
               ![t].found = Truthy(CacheGet(cache[logins[t].store], now, state)),
               ![t].visible = \E w \in Threads \ {t} :
                                 /\ logins[w].wrote = state
                                 /\ CacheContains(cache[logins[w].store], now, state)]
        /\ UNCHANGED <<cache, default, raceFrame>>

NextRace ==
    \/ GetInstanceCheck \/ GetInstanceCreate \/ GetInstanceReturn
    \/ ThreadAuthorize \/ ThreadLogin \/ Tick

SpecRace == InitRace /\ [][NextRace]_vars

(***************************************************************************)
(* Several adapters over one store: every adapter built without a          *)
(* cache_store of its own takes DefaultCacheStore.get_instance(), so the    *)
(* adapters of one process read and write the same cache.  `source` and    *)
(* `config` are the adapter the next call is made on.                      *)
(***************************************************************************)
\* the adapters of the process: two providers, two client configurations
SharedSources == {"github", "weibo"}

SharedClientIds == {"cid", "cid2"}

SharedConfigs == {[StaticConfig EXCEPT !.client_id = id] : id \in SharedClientIds}

\* the adapter a call is made on, as the cache history names it
Adapter == [source |-> source, client_id |-> config.client_id]

\* the callbacks the shared flows receive: a code with a state
SharedCallbacks ==
    {cb \in Callbacks : cb.code = "c1" /\ cb.state \in {"s1", "u1", "forged"}}

\* the transport of the shared flows
SharedEnvs == {e \in Envs : e.user = "ok" /\ e.token # "raise"}

InitShared ==
    /\ source \in SharedSources
    /\ config \in SharedConfigs
    /\ storeTtl = StateTimeout
    /\ storeMaxsize = maxsize
    /\ now = 0
    /\ cache = EmptyCache
    /\ accepted = {}
    /\ shadow = NoShadow
    /\ default = NoDefault
    /\ builder = NewBuilder
    /\ last = Idle
    /\ logins = NoLogins
    /\ origin = NoOrigin

sharedFrame == <<storeTtl, storeMaxsize, shadow, default, builder, logins>>

\* BaseAuthSource.__init__ without cache_store: the next call is made on an
\* adapter of another provider or client configuration, over the same store
NewAdapter ==
    \E src \in SharedSources, cfg \in SharedConfigs :
        /\ last = Idle
        /\ <<src, cfg>> # <<source, config>>
        /\ source' = src
        /\ config' = cfg
        /\ UNCHANGED <<now, cache, accepted, last, origin, sharedFrame>>

\* authorize(state) on the current adapter; the history notes the adapter
\* for every key the call set
SharedAuthorize ==
    \E state \in ExplicitStates, uuid \in Uuids, env \in SharedEnvs :
        LET r == authorize(source, config, state, uuid, cache, now, storeTtl,
                           storeMaxsize, env)
            set == {r.writes[i] : i \in DOMAIN r.writes}
        IN  /\ last = Idle
            /\ cache' = r.cache
            /\ origin' = [k \in DOMAIN origin \cup set |->
                             IF k \in set THEN Adapter ELSE origin[k]]
            /\ last' = [Idle EXCEPT !.op = "authorize", !.arg = state, !.state = r.state,
                                    !.kind = r.kind, !.url = r.url, !.exc = r.exc,
                                    !.params = r.params, !.writes = r.writes]
            /\ UNCHANGED <<source, config, now, accepted, sharedFrame>>

\* login(callback) on the current adapter
SharedLogin ==
    \E callback \in SharedCallbacks, env \in SharedEnvs :
        LET r == LoginCall(callback, NoKwargs, env)
        IN  /\ last = Idle
            /\ cache' = r.cache
            /\ accepted' = r.accepted
            /\ last' = r.last
            /\ UNCHANGED <<source, config, now, origin, sharedFrame>>

NextShared == NewAdapter \/ SharedAuthorize \/ SharedLogin \/ Return \/ Tick

SpecShared == InitShared /\ [][NextShared]_vars

(***************************************************************************)
(* Concurrent logins on the DingTalk adapter: several threads call         *)
(* login(callback) on adapters of one application, which share the cache   *)
(* store.  BaseAuthSource.login calls get_access_token and then            *)
(* get_user_info; a thread may be overtaken between the two calls.  The    *)
(* callbacks carry a code and no state, so the state check is skipped.     *)
(***************************************************************************)
\* the end users who scan the code; each is served by a thread of its own
EndUsers == {"alice", "bob"}

\* enterprise access tokens that gettoken hands out for (appkey, appsecret):
\* the one in force, and the one that follows it when the provider renews it
AppTokens == {"AT1", "AT2"}

\* what the two requests of get_access_token can come back with
DingtalkReplies == {"ok", "bycode_errcode", "gettoken_errcode"}

\* errcode of a refused request
DingtalkErrcode == 40078

NoUserInfo == [nick |-> "", unionid |-> "", openid |-> ""]

NoDingtalkToken == [access_token |-> "", open_id |-> "", union_id |-> ""]

NoDingtalkUser == [uuid |-> "", username |-> "", nickname |-> "",
                   raw_user_info |-> NoUserInfo]

\* a thread outside login
NewLogin == [pc |-> "idle", token |-> NoDingtalkToken, code |-> 0,
             user |-> NoDingtalkUser]

\* user_info of the reply to getuserinfo_bycode for the code of end user u
UserInfoByCode(u) == [nick |-> u, unionid |-> "union_" \o u, openid |-> "open_" \o u]

\* AuthDingtalkSource._cache_user_info / _get_cached_user_info: the key
DingtalkCacheKey(access_token) == "dingtalk_user_" \o access_token

\* AuthDingtalkSource.get_access_token for the code of end user u: the token
\* carries the enterprise access token and u's ids, and u's user info is set
\* in the cache store under the key of the access token
AuthDingtalkSource_get_access_token(u, reply, at, c, time, ttl, size) ==
    IF reply # "ok"
    THEN [code |-> DingtalkErrcode, token |-> NoDingtalkToken, cache |-> c]
    ELSE LET info == UserInfoByCode(u)
             token == [access_token |-> at, open_id |-> info.openid,
                       union_id |-> info.unionid]
         IN  [code |-> 200, token |-> token,
              cache |-> CacheSet(c, time, ttl, size, DingtalkCacheKey(token.access_token),
                                 info, NoTimeout)]

\* AuthDingtalkSource.get_user_info: the identity is built from the entry
\* cached under the token's access token, and the uuid from the token
AuthDingtalkSource_get_user_info(name, token, c, time) ==
    LET key == DingtalkCacheKey(token.access_token)
    IN  IF ~CacheContains(c, time, key)
        THEN [code |-> 400, user |-> NoDingtalkUser]
        ELSE LET cached_user_info == CacheGet(c, time, key)
             IN  [code |-> 200,
                  user |-> [uuid |-> name \o "_" \o token.union_id,
                            username |-> cached_user_info.nick,
                            nickname |-> cached_user_info.nick,
                            raw_user_info |-> cached_user_info]]

InitDingtalk ==
    /\ source = "dingtalk"
    /\ config = StaticConfig
    /\ storeTtl = StateTimeout
    /\ storeMaxsize = maxsize
    /\ now = 0
    /\ cache = EmptyCache
    /\ accepted = {}
    /\ shadow = NoShadow
    /\ default = NoDefault
    /\ builder = NewBuilder
    /\ last = Idle
    /\ logins = [u \in EndUsers |-> NewLogin]
    /\ origin = NoOrigin

dingtalkFrame == <<source, config, storeTtl, storeMaxsize, now, accepted, shadow,
                   default, builder, last, origin>>

\* login(callback), first half: self.get_access_token(callback); a failure
\* response ends the login
DingtalkTokenExchange ==
    \E u \in EndUsers, reply \in DingtalkReplies, at \in AppTokens :
        LET r == AuthDingtalkSource_get_access_token(u, reply, at, cache, now,
                                                     storeTtl, storeMaxsize)
        IN  /\ logins[u].pc = "idle"
            /\ cache' = r.cache
            /\ logins' = [logins EXCEPT ![u] =
                            [pc |-> IF r.code = 200 THEN "token" ELSE "done",
                             token |-> r.token, code |-> r.code,
                             user |-> NoDingtalkUser]]
            /\ UNCHANGED dingtalkFrame

\* login(callback), second half: self.get_user_info(token_response.data)
DingtalkUserInfo ==
    \E u \in EndUsers :
        LET r == AuthDingtalkSource_get_user_info(source, logins[u].token, cache, now)
        IN  /\ logins[u].pc = "token"
            /\ logins' = [logins EXCEPT ![u].pc = "done", ![u].code = r.code,
                                        ![u].user = r.user]
            /\ UNCHANGED <<cache, dingtalkFrame>>

\* the caller takes the response, and the thread is free for another login
DingtalkReturn ==
    \E u \in EndUsers :
        /\ logins[u].pc = "done"
        /\ logins' = [logins EXCEPT ![u] = NewLogin]
        /\ UNCHANGED <<cache, dingtalkFrame>>

NextDingtalk == DingtalkTokenExchange \/ DingtalkUserInfo \/ DingtalkReturn \/ Tick

SpecDingtalk == InitDingtalk /\ [][NextDingtalk]_vars

(***************************************************************************)
(* Properties                                                              *)
(***************************************************************************)
\* the last call was engine.login, and it has returned or raised
IsLogin == last.op = "login"

\* a step of an adapter returned a success response that carries a payload
Succeeded(ret) ==
    ret.kind = "response" /\ ret.resp.status = SUCCESS /\ ret.resp.data # NoData

\* a failure-kind response that carries no Credential and no Identity
IsFailureWithoutPayload(r) ==
    r.kind = "response" /\ r.resp.status = FAILURE /\ r.resp.data = NoData

\* a message carries a text
Carries(message, text) == \E i \in 1..Len(message) : message[i] = text

\* C1 as written: a login whose callback carries a state value that is not
\* retrievable from the cache returns a failure response without payload and
\* invokes neither get_access_token nor get_user_info.
C1_AbsentStateAlwaysRejected ==
    (IsLogin /\ Truthy(last.callback.state) /\ ~last.cached)
        => /\ IsFailureWithoutPayload(last)
           /\ last.tokenCalls = 0 /\ last.userCalls = 0

\* C1, amended: when ignore_check_state is false, a login whose callback
\* carries a non-empty state value that is not retrievable from the cache
\* (never written, or written and expired) returns a failure response
\* without payload and invokes neither get_access_token nor get_user_info.
C1_AbsentStateRejectedWhenChecking ==
    (IsLogin /\ ~config.ignore_check_state /\ Truthy(last.callback.state) /\ ~last.cached)
        => /\ IsFailureWithoutPayload(last)
           /\ last.tokenCalls = 0 /\ last.userCalls = 0 /\ last.http = 0

\* a login presents a state that authorize wrote and that has expired since
C1_Witness_ExpiredStateRejected ==
    /\ IsLogin /\ ~config.ignore_check_state
    /\ last.callback.state \in DOMAIN cache
    /\ now >= cache[last.callback.state].expires
    /\ last.rejected /\ last.tokenCalls = 0

\* C2 as written: authorize returns a URL that contains the client id, the
\* redirect URI and the chosen state, and the state is retrievable from the
\* cache when authorize returns.
C2_AuthorizeUrlAndState ==
    last.op = "authorize"
        => /\ last.kind = "url"
           /\ UrlContains(last.url, config.client_id)
           /\ UrlContains(last.url, config.redirect_uri)
           /\ UrlContains(last.url, last.state)
           /\ CacheGet(cache, now, last.state) = last.state

\* C3: a login that carries a code and is not rejected by the state check
\* invokes get_access_token exactly once, and get_user_info exactly once if
\* that exchange succeeded and not at all otherwise.
C3_OneTokenExchangeThenOneUserInfo ==
    (IsLogin /\ Truthy(AuthCallbackBuild(last.callback).code) /\ ~last.rejected)
        => /\ last.tokenCalls = 1
           /\ last.userCalls = IF Succeeded(last.tokenRet) THEN 1 ELSE 0

\* a login passed the state check, exchanged its code and fetched the user
C3_Witness_BothStepsOnce ==
    /\ IsLogin /\ last.checked /\ ~last.rejected
    /\ Truthy(last.callback.code)
    /\ last.tokenCalls = 1 /\ last.userCalls = 1
    /\ last.kind = "response" /\ last.resp.data.kind = "user"

\* C4 as written: a response returned by login, refresh, revoke or by the
\* token-exchange step carries a payload if and only if its status kind is
\* SUCCESS.
C4_PayloadIffSuccess ==
    /\ (last.op \in {"login", "refresh", "revoke"} /\ last.kind = "response")
          => (last.resp.data # NoData <=> last.resp.status = SUCCESS)
    /\ (IsLogin /\ last.tokenRet.kind = "response")
          => (last.tokenRet.resp.data # NoData <=> last.tokenRet.resp.status = SUCCESS)

\* C5 as written: a state value that a login has accepted is rejected by
\* every later login that presents it.
C5_AcceptedStateIsSingleUse ==
    (IsLogin /\ last.replay) => last.rejected

\* C6: a login leaves the cache entry of the state it is given as it was, and
\* a checked state whose entry is unexpired is never rejected, also when an
\* earlier login has accepted it already.
C6_LoginKeepsStateEntry ==
    [][(last.op = "idle" /\ last'.op = "login")
         => LET s == last'.callback.state
            IN  /\ s \in DOMAIN cache => (s \in DOMAIN cache' /\ cache'[s] = cache[s])
                /\ (last'.checked /\ s \in DOMAIN cache /\ now < cache[s].expires)
                      => ~last'.rejected]_vars

\* a state that a login has accepted is accepted by a later login again
C6_Witness_ReplayAccepted ==
    /\ IsLogin /\ last.replay /\ last.checked /\ ~last.rejected
    /\ last.callback.state \in DOMAIN cache

\* C7 as written: login, refresh and revoke never let an exception out.
C7_NoExceptionPropagates ==
    last.op \in {"login", "refresh", "revoke"} => last.kind # "raise"

\* C8 as written: in the token-exchange and the user-info step an exception
\* of the transport yields an ERROR response carrying the exception's
\* message, and a provider reply with an error marker yields a FAILURE
\* response carrying the provider's message.
C8_ExceptionsAndProviderErrorsClassified ==
    /\ (IsLogin /\ last.tokenCalls = 1 /\ last.tokenRet.http = 1)
          => /\ last.env.token = "raise"
                  => /\ last.tokenRet.kind = "response"
                     /\ last.tokenRet.resp.status = ERROR
                     /\ Carries(last.tokenRet.resp.message, TransportError)
             /\ last.env.token = "provider_error"
                  => /\ last.tokenRet.kind = "response"
                     /\ last.tokenRet.resp.status = FAILURE
                     /\ Carries(last.tokenRet.resp.message, ProviderMessage)
    /\ (IsLogin /\ last.userCalls = 1 /\ last.http = last.tokenRet.http + 1)
          => /\ last.env.user = "raise"
                  => /\ last.kind = "response"
                     /\ last.resp.status = ERROR
                     /\ Carries(last.resp.message, TransportError)
             /\ last.env.user = "provider_error"
                  => /\ last.kind = "response"
                     /\ last.resp.status = FAILURE
                     /\ Carries(last.resp.message, ProviderMessage)

\* C9: when the token exchange returns a response that is not a success,
\* login returns a response with the same code, status kind and message and
\* without payload, and get_user_info is not invoked.
C9_TokenFailurePropagated ==
    (IsLogin /\ last.tokenCalls = 1 /\ last.tokenRet.kind = "response"
        /\ ~Succeeded(last.tokenRet))
        => /\ last.kind = "response"
           /\ last.resp.code = last.tokenRet.resp.code
           /\ last.resp.status = last.tokenRet.resp.status
           /\ last.resp.message = last.tokenRet.resp.message
           /\ last.resp.data = NoData
           /\ last.userCalls = 0

\* a token exchange ended in an ERROR response and login handed it on
C9_Witness_ErrorPropagated ==
    /\ IsLogin /\ last.tokenCalls = 1 /\ last.userCalls = 0
    /\ last.tokenRet.kind = "response" /\ last.tokenRet.resp.status = ERROR
    /\ last.resp.status = ERROR /\ last.resp.code = 500

\* C10 as written: on an adapter without refresh (without revoke) the engine's
\* refresh (revoke) returns a response of status kind NOT_IMPLEMENTED and
\* does not raise.
C10_UnsupportedIsNotImplemented ==
    /\ (last.op = "refresh" /\ source \in NoRefreshSources)
          => (last.kind = "response" /\ last.resp.status = NOT_IMPLEMENTED)
    /\ (last.op = "revoke" /\ source \in NoRevokeSources)
          => (last.kind = "response" /\ last.resp.status = NOT_IMPLEMENTED)

\* a parameter mapping has the entry key -> value
HasParam(params, key, value) == \E i \in 1..Len(params) : params[i] = <<key, value>>

\* C11 as written: in every call to authorize, get_authorize_params returns a
\* parameter mapping, and that mapping has a state entry equal to the state
\* authorize chose and wrote to the cache.
C11_ParamsCarryChosenState ==
    last.op = "authorize"
        => /\ last.kind = "url"
           /\ HasParam(last.params, "state", last.state)

\* C12 as written: one call to authorize passes exactly one key to the cache
\* store's set, the state it chose, and mutates the cache in no other way.
C12_AuthorizeWritesOnce ==
    last.op = "authorize" => last.writes = <<last.state>>

\* C13 as written (on a store of the default size): an entry set with an
\* explicit timeout t is retrievable exactly while fewer than t seconds have
\* passed since the set, whatever ttl the store was built with; this covers
\* set(state, state, 180), the call authorize makes.
C13_ExplicitTimeoutHonoured ==
    storeMaxsize = maxsize
        => \A k \in DOMAIN shadow :
              shadow[k].timeout # NoTimeout
                  => (CacheGet(cache, now, k) = shadow[k].val
                         <=> now < shadow[k].setAt + shadow[k].timeout)

\* C14: an entry set without a timeout is retrievable right after the set, and
\* once the store's default ttl has passed since the set, get returns None.
C14_DefaultTtlExpiry ==
    /\ (last.op = "set" /\ last.timeout = NoTimeout)
          => CacheGet(cache, now, last.key) = last.value
    /\ \A k \in DOMAIN shadow :
          (shadow[k].timeout = NoTimeout /\ now >= shadow[k].setAt + storeTtl)
              => CacheGet(cache, now, k) = None
    /\ (last.op = "get" /\ last.key \in DOMAIN shadow
          /\ shadow[last.key].timeout = NoTimeout
          /\ now >= shadow[last.key].setAt + storeTtl)
          => last.result = None

\* a get of an entry that was set without timeout and whose link is still in
\* the cache returns None after the default ttl
C14_Witness_ExpiredGetIsNone ==
    /\ last.op = "get" /\ last.result = None
    /\ last.key \in DOMAIN shadow /\ shadow[last.key].timeout = NoTimeout
    /\ last.key \in DOMAIN cache
    /\ now >= shadow[last.key].setAt + storeTtl

\* what a map with expiry holds under key k: the value of the latest set that
\* no delete or clear has followed, while the lifetime the store gives its
\* entries has not passed
MapGet(k) ==
    IF k \in DOMAIN shadow /\ now < shadow[k].setAt + storeTtl
    THEN shadow[k].val ELSE None

\* C15 as written: after any sequence of get, set, delete and clear, get(k)
\* returns the value of the latest unexpired set of k, and None for a key that
\* was never set, was deleted or was cleared; a delete changes no other key.
C15_CacheIsAMap ==
    /\ \A k \in CacheKeys : CacheGet(cache, now, k) = MapGet(k)
    /\ last.op = "get" => last.result = MapGet(last.key)

\* the state values of the flows in flight
StateValues == Uuids \cup (ExplicitStates \ {None})

\* C16 as written: an authorize or a login of one flow leaves the entry of
\* every other state value as it was: still retrievable, with the same value
\* and the same expiry.
C16_OtherStatesUntouched ==
    [][(last.op = "idle" /\ last'.op \in {"authorize", "login"})
         => \A k \in StateValues :
               (k # last'.state /\ CacheContains(cache, now, k))
                   => /\ CacheContains(cache', now, k)
                      /\ cache'[k].val = cache[k].val
                      /\ cache'[k].expires = cache[k].expires]_vars

\* C17: get_instance returns the instance DefaultCacheStore holds and leaves
\* it in place; with no instance held it builds a MemoryCacheStore, which
\* DefaultCacheStore holds from then on; after set_instance(x) the instance
\* held is x.
C17_DefaultInstanceStable ==
    /\ last.op = "get_instance"
          => /\ last.result = default._instance
             /\ last.result # None
             /\ last.before._instance # None
                   => /\ last.result = last.before._instance
                      /\ default = last.before
             /\ last.before._instance = None
                   => /\ last.result = MemoryStore(last.before.created + 1)
                      /\ default.created = last.before.created + 1
    /\ last.op = "set_instance"
          => /\ default._instance = last.value
             /\ default.created = last.before.created

\* a get_instance that found the store an earlier call had built
C17_Witness_SameStoreAgain ==
    /\ last.op = "get_instance"
    /\ last.before._instance = MemoryStore(1)
    /\ last.result = MemoryStore(1)

\* the adapter type of a provider name: Auth<Name>Source of the module <name>
AdapterTypeOf(name) == "Auth" \o class_name(str_lower(name)) \o "Source"

HasAdapterType(name) == <<str_lower(name), AdapterTypeOf(name)>> \in SourceClasses

\* C19: build raises ValueError and returns no engine when the provider name
\* is empty, when neither a configuration nor a configuration function was
\* given, when the name has no descriptor, or when it has no adapter type; an
\* empty name is what is reported when the configuration is missing too.
C19_BuildRaisesValueError ==
    last.op = "build"
        => LET empty    == builder._source \in {None, ""}
               noConfig == /\ builder._auth_config = NoConfig
                           /\ builder._auth_config_function = None
               noDescr  == /\ ~empty
                           /\ str_upper(builder._source) \notin AuthDefaultSource
                           /\ \A i \in DOMAIN builder._extend_sources :
                                  str_upper(builder._source) \notin builder._extend_sources[i]
               noType   == ~empty /\ ~HasAdapterType(builder._source)
           IN  /\ (empty \/ noConfig \/ noDescr \/ noType)
                     => /\ last.kind = "raise"
                        /\ last.exc = "ValueError"
                        /\ last.engine = NoEngine
               /\ empty => last.message = "source empty"
               /\ (~empty /\ noConfig) => last.message = "config empty"

\* build was called with an empty name and no configuration at all
C19_Witness_EmptyNameNoConfig ==
    /\ last.op = "build"
    /\ builder._source = ""
    /\ builder._auth_config = NoConfig
    /\ builder._auth_config_function = None
    /\ last.exc = "ValueError"

\* C20: the engine build returns wraps the adapter type of the provider name,
\* built with the configuration given directly if there is one (the
\* configuration function is then not called), and otherwise with what the
\* configuration function returns for the provider name.
C20_BuildWrapsAdapter ==
    (last.op = "build" /\ last.kind = "engine")
        => /\ HasAdapterType(builder._source)
           /\ last.engine.adapter = AdapterTypeOf(builder._source)
           /\ IF builder._auth_config # NoConfig
              THEN /\ last.engine.config = builder._auth_config
                   /\ last.calls = <<>>
              ELSE /\ builder._auth_config_function # None
                   /\ last.calls = <<builder._source>>
                   /\ last.engine.config =
                          ApplyConfigFunction(builder._auth_config_function,
                                              builder._source)

\* an engine was built by a builder that held both a configuration and a
\* configuration function
C20_Witness_DirectConfigWins ==
    /\ last.op = "build"
    /\ last.kind = "engine"
    /\ builder._auth_config = StaticConfig
    /\ builder._auth_config_function = "per_source"
    /\ last.engine.adapter = "AuthWechatMiniSource"

\* C18 as written: a login whose callback carries a code the provider
\* exchanges for a Credential calls the adapter's user-info step once, with
\* that Credential and with the keyword arguments the login was given.
C18_KwargsForwarded ==
    (/\ last.op = "login"
     /\ Truthy(last.callback.code)
     /\ ~last.rejected
     /\ last.env.token = "ok")
        => /\ last.userCalls = 1
           /\ last.userToken = last.tokenRet.resp.data
           /\ last.userKwargs = last.kwargs

\* C21 as written: for a name without built-in descriptor whose descriptor the
\* caller registered with extend_source and whose adapter type the caller has
\* defined, build returns an engine over that adapter.
C21_BuildFindsCallerAdapter ==
    (/\ last.op = "build"
     /\ builder._source = "custom"
     /\ str_upper(builder._source) \notin AuthDefaultSource
     /\ builder._extend_sources = <<CustomAuthSource>>
     /\ \E c \in CallerClasses : c[2] = AdapterTypeOf(builder._source)
     /\ builder._auth_config # NoConfig)
        => /\ last.kind = "engine"
           /\ last.engine.adapter = AdapterTypeOf(builder._source)

\* C22 as written: build succeeds for every map; every key that names a field
\* of the callback becomes that field with its value (code takes the value of
\* auth_code when code is empty) and every other key is in extras with its
\* value.
C22_CallbackKeepsEveryKey ==
    last.op = "callback_build"
        => /\ last.built.kind = "callback"
           /\ \A k \in DOMAIN last.data :
                 IF k \in DataclassFields
                 THEN \/ last.built.fields[k] = last.data[k]
                      \/ /\ k = "code"
                         /\ last.data[k] = ""
                         /\ "auth_code" \in DOMAIN last.data
                         /\ last.built.fields[k] = last.data["auth_code"]
                 ELSE /\ k \in DOMAIN last.built.extras
                      /\ last.built.extras[k] = last.data[k]

\* C23 as written: the constructor raises ValueError when client_id,
\* client_secret or redirect_uri is empty, and otherwise returns a
\* configuration with scope and state None and ignore_check_state False.
C23_ConfigValidated ==
    last.op = "auth_config"
        => IF \/ ~Truthy(last.args.client_id)
              \/ ~Truthy(last.args.client_secret)
              \/ ~Truthy(last.args.redirect_uri)
           THEN last.out.kind = "raise" /\ last.out.exc = "ValueError"
           ELSE /\ last.out.kind = "config"
                /\ last.out.config.scope = None
                /\ last.out.config.state = None
                /\ last.out.config.ignore_check_state = FALSE

\* C24 as written: the Identity of a success response has a non-empty uuid,
\* and the uuid of an end user does not depend on the login (the access token)
\* that fetched it.
C24_UuidNonEmptyAndStable ==
    (last.op = "get_user_info" /\ last.out.code = 200)
        => /\ Truthy(last.out.data.uuid)
           /\ \A at \in {"AT1", "AT2"} :
                 UserOfReply(last.args.src, last.args.reply, AuthToken(at, None)).data.uuid
                     = last.out.data.uuid

\* the raw values each mapping recognises as male and as female: the common
\* codes in any letter case and the numbers 1 and 2 for AuthGender.get_gender,
\* the strings '1' and '2' for wechat, the numbers 1 and 2 for wechat_mini
RecognisedAs(mapping, gender) ==
    LET one == IF gender = "MALE" THEN "1" ELSE "2"
    IN  CASE mapping = "AuthGender" ->
               {r \in RawGenders :
                   \/ r.type = "int" /\ r.val = one
                   \/ /\ r.type = "str"
                      /\ r.val \in (IF gender = "MALE"
                                    THEN {"1", "m", "M", "male", "Male", "\\u7537"}
                                    ELSE {"2", "f", "female", "FEMALE", "\\u5973"})}
          [] mapping = "wechat" -> {r \in RawGenders : r.type = "str" /\ r.val = one}
          [] mapping = "wechat_mini" ->
               {r \in RawGenders : r.type \in {"int", "float"} /\ r.val = one}
                   \cup {r \in RawGenders : r.type = "bool" /\ r.val = one}

\* C25: for every raw value the normalisation returns, without raising, one
\* member of AuthGender: the gender of the value if the mapping recognises
\* it, UNKNOWN otherwise.
C25_GenderTotal ==
    last.op = "get_gender"
        => /\ last.out.kind = "gender"
           /\ last.out.gender \in AuthGender
           /\ last.out.gender =
                 IF last.args.raw \in RecognisedAs(last.args.mapping, "MALE") THEN "MALE"
                 ELSE IF last.args.raw \in RecognisedAs(last.args.mapping, "FEMALE")
                 THEN "FEMALE"
                 ELSE "UNKNOWN"

\* the integer 1, which the string mapping of wechat does not recognise, was
\* normalised to UNKNOWN
C25_Witness_UnrecognisedNumber ==
    /\ last.op = "get_gender"
    /\ last.args.mapping = "wechat"
    /\ last.args.raw = [type |-> "int", val |-> "1"]
    /\ last.out.gender = "UNKNOWN"

\* the dicts with the items of `params` in any insertion order
Reordered(params) ==
    {q \in ParamLists : {q[i] : i \in DOMAIN q} = {params[i] : i \in DOMAIN params}}

\* the signature does not depend on the insertion order
SignOrderFree ==
    \A q \in Reordered(last.args.params) :
        SignOf(last.args.adapter, q).signature = last.out.signature

\* changing the value of the i-th item changes the text that is hashed
SignFeelsValue(i) ==
    \A v \in SignValues \ {last.args.params[i].v} :
        SignOf(last.args.adapter, [last.args.params EXCEPT ![i].v = v]).text
            # last.out.text

\* C26 as written: the signature is the same for any insertion order, and
\* changing the value of any one parameter changes the text that is hashed.
C26_SignatureOfTheMap ==
    last.op = "sign"
        => /\ SignOrderFree
           /\ \A i \in DOMAIN last.args.params : SignFeelsValue(i)

\* C26 amended: the same, for every parameter that is signed: the jd
\* signature leaves the parameter sign, the place of the signature, out.
C26_SignatureOfTheSignedMap ==
    last.op = "sign"
        => /\ SignOrderFree
           /\ \A i \in DOMAIN last.args.params :
                 ~(last.args.adapter = "jd" /\ last.args.params[i].k = "sign")
                     => SignFeelsValue(i)

\* a jd signature over parameters given in another order than the sorted one
C26_Witness_UnsortedParams ==
    /\ last.op = "sign"
    /\ last.args.adapter = "jd"
    /\ Len(last.args.params) = 2
    /\ last.args.params[1].k = "b"
    /\ last.args.params[2].k = "a"
    /\ last.out.text = "SECRETa" \o last.args.params[2].v \o "b"
                           \o last.args.params[1].v \o "SECRET"

\* the canonical string of a parameter map: key=value of the non-empty
\* parameters other than sign, sorted by key and joined with '&'
Canonical(params) ==
    JoinAmp(params,
            {params[i].k : i \in {j \in DOMAIN params :
                                     params[j].v \notin {None, ""} /\ params[j].k # "sign"}},
            1, TRUE)

\* the signature is the same for any insertion order and verifies with the
\* public key of the pair over the canonical string
RsaSignatureVerifies ==
    /\ \A q \in AlipayParamLists :
          {q[i] : i \in DOMAIN q} = {last.args.params[i] : i \in DOMAIN last.args.params}
              => AuthAlipaySource_sign(last.args.key, q).signature = last.out.signature
    /\ rsa_verify(PublicOf(last.args.key), Canonical(last.args.params), last.out.signature)

\* the signature does not verify over the map whose i-th value is now v
RsaAlterationFound(i, v) ==
    ~rsa_verify(PublicOf(last.args.key),
                Canonical([last.args.params EXCEPT ![i].v = v]), last.out.signature)

\* C27 as written: the signature is independent of the insertion order,
\* verifies with the matching public key over the canonical string, and does
\* not verify once any parameter value is altered.
C27_RsaRoundTrip ==
    (last.op = "sign_rsa" /\ last.args.key \in LoadableKeys)
        => /\ RsaSignatureVerifies
           /\ \A i \in DOMAIN last.args.params :
                 \A v \in AlipayValues \ {last.args.params[i].v} : RsaAlterationFound(i, v)

\* C27 amended: the same, for the alterations that change the canonical
\* string: every alteration but those of the parameter sign and those that
\* replace one empty value by another.
C27_RsaRoundTripOfSignedParams ==
    (last.op = "sign_rsa" /\ last.args.key \in LoadableKeys)
        => /\ RsaSignatureVerifies
           /\ \A i \in DOMAIN last.args.params :
                 \A v \in AlipayValues \ {last.args.params[i].v} :
                     (/\ last.args.params[i].k # "sign"
                      /\ Truthy(v) \/ Truthy(last.args.params[i].v))
                         => RsaAlterationFound(i, v)

\* a signature over two parameters given in another order than the sorted
\* one, next to an empty parameter
C27_Witness_SortedNonEmpty ==
    /\ last.op = "sign_rsa"
    /\ last.args.key = "PRIV1"
    /\ last.args.params = <<[k |-> "b", v |-> "12"], [k |-> "sign", v |-> "1"],
                            [k |-> "a", v |-> ""]>>
    /\ last.out.text = "b=12"

\* C28 as written: whatever the plaintext, encryption with a key that is not
\* 16, 24 or 32 bytes long raises ValueError, and with a key of such a length
\* it returns a ciphertext that decrypts, under the same key, to the
\* plaintext.
C28_AesKeyCheckedAndRoundTrip ==
    (last.op = "aes_encrypt" /\ last.args.text # None)
        => IF KeyByteLen(last.args.key) \notin {16, 24, 32}
           THEN last.out.kind = "raise" /\ last.out.exc = "ValueError"
           ELSE /\ last.out.kind = "text"
                /\ aes_decrypt(last.out.cipher, last.args.key).kind = "text"
                /\ aes_decrypt(last.out.cipher, last.args.key).text = last.args.text

\* C29: login looks the state up exactly when ignore_check_state is false and
\* the callback carries a non-empty state; otherwise it rejects nothing and
\* goes on to the token exchange, whatever the cache holds.
C29_LookupExactlyWhenChecking ==
    IsLogin
        => LET checking == ~config.ignore_check_state /\ Truthy(last.callback.state)
           IN  /\ last.checked <=> checking
               /\ ~checking => (~last.rejected /\ last.tokenCalls = 1)

\* a login with checking disabled presented a state no authorize had cached,
\* and went on to the token exchange
C29_Witness_UncachedStateSkipped ==
    /\ IsLogin
    /\ config.ignore_check_state
    /\ Truthy(last.callback.state)
    /\ cache = EmptyCache
    /\ ~last.checked
    /\ last.tokenCalls = 1

\* C30: under any interleaving of concurrent logins on the DingTalk adapter
\* for different end users, the identity a login returns (uuid, username,
\* nickname, raw user info) is built only from the user data that the same
\* login's own token exchange obtained
C30_IdentityFromOwnExchange ==
    \A u \in EndUsers :
        logins[u].pc = "done" /\ logins[u].code = 200 =>
            /\ logins[u].user.uuid = source \o "_" \o UserInfoByCode(u).unionid
            /\ logins[u].user.username = UserInfoByCode(u).nick
            /\ logins[u].user.nickname = UserInfoByCode(u).nick
            /\ logins[u].user.raw_user_info = UserInfoByCode(u)

\* the call that has just returned is a login on the three-legged adapter
\* that went as far as the token exchange
IsTwitterExchange == last.op = "login" /\ source = "twitter" /\ last.tokenCalls = 1

\* the cache holds an unexpired token secret for the callback's request token
SecretLive ==
    /\ CacheContains(cache, now, TwitterSecretKey(last.callback.oauth_token))
    /\ Truthy(CacheGet(cache, now, TwitterSecretKey(last.callback.oauth_token)))

DecryptedAppid(a) ==
    IF /\ a.encrypted_data.shape = "ciphertext"
       /\ a.encrypted_data.key = a.session_key
       /\ a.encrypted_data.iv = a.iv
       /\ a.encrypted_data.plain.json = "dict"
       /\ a.encrypted_data.plain.watermark \in MiniClientIds
    THEN a.encrypted_data.plain.watermark
    ELSE None

\* the response carries no identity and is no success
Refused(out) ==
    out.kind = "response" /\ out.resp.code # 200 /\ out.resp.data = NoData

C33_TokenNeverMutated ==
    last.op = "token_step"
        => /\ last.out.token = last.args.token
           /\ (last.args.step[2] = "refresh_token" /\ last.out.kind = "response"
               /\ last.out.code = 200) => last.out.new # NoCredential

\* the default scopes of a provider as its authorize URL carries them
DefaultScopeText(src) ==
    CASE src = "github" -> "user"
      [] src = "coding" -> "user email"
      [] src = "custom" -> ""

\* the scope that is resolvable: the configured one, else the default one
ResolvedScope(src, cfg) ==
    IF cfg.scope # None /\ cfg.scope # "" THEN cfg.scope ELSE DefaultScopeText(src)

\* C34: the default authorize parameters are exactly response_type=code,
\* client_id, redirect_uri and the state (the given one, or a generated one
\* when none is given), plus scope only when one is resolvable: the
\* configured scope, else the provider's default scopes joined with the
\* provider's delimiter; with neither there is no scope parameter and no
\* error
C34_DefaultAuthorizeParams ==
    last.op = "get_authorize_params"
        => LET st == IF last.arg \in {None, ""} THEN last.state ELSE last.arg
               four == << <<"response_type", "code">>, <<"client_id", config.client_id>>,
                          <<"redirect_uri", config.redirect_uri>>, <<"state", st>> >>
               scope == ResolvedScope(source, config)
           IN  /\ last.kind = "params"
               /\ last.params = IF scope = "" THEN four
                                ELSE Append(four, <<"scope", scope>>)

\* the caller-defined source with no configured scope: four parameters
C34_Witness_NoScopeAtAll ==
    /\ last.op = "get_authorize_params"
    /\ source = "custom"
    /\ config.scope = ""
    /\ last.arg = "s1"
    /\ Len(last.params) = 4
    /\ \A i \in 1..4 : last.params[i][1] # "scope"

\* C35: AuthToken.expired never raises; it is False when expires_in is None
\* or not positive, and otherwise True exactly when the wall clock is later
\* than create_time plus expires_in seconds
C35_ExpiredNeverRaises ==
    last.op = "expired"
        => /\ last.out.kind = "bool"
           /\ last.out.value =
                  (/\ last.args.expires_in.has
                   /\ last.args.expires_in.val > 0
                   /\ last.args.time > last.args.create_time + last.args.expires_in.val)

\* C36: for every string v, RedisCacheStore.get(k) after set(k, v) and before
\* expiry returns a value equal to v, so a state written by authorize passes
\* the truthiness test of login whatever its text
C36_RedisGivesBackTheState ==
    (last.op = "redis_set_get" /\ last.args.at < RedisTtl)
        => /\ last.out.got = PyStr(last.args.value)
           /\ last.out.passes

\* C37: threads that call DefaultCacheStore.get_instance() side by side while
\* no instance exists all obtain the same store, so that a state written by
\* authorize on the adapter of one thread is found by login on the adapter
\* of another
C37_OneStoreForAllThreads ==
    /\ \A t, u \in Threads :
           (logins[t].store # None /\ logins[u].store # None)
               => logins[t].store = logins[u].store
    /\ \A t \in Threads :
           (logins[t].looked # None /\ logins[t].visible) => logins[t].found

\* C38: state entries are keyed by the raw state value in the cache all
\* adapters share, with no provider or client qualifier: a state set by
\* authorize on one adapter passes the state check of login on any other
\* adapter over the same cache, and an explicit state used by two flows is
\* one entry
C38_StateSharedAcrossAdapters ==
    /\ DOMAIN cache \subseteq (ExplicitStates \cup Uuids) \ {None}
    /\ last.op = "authorize"
           => /\ last.writes # <<>>
              /\ \A i \in DOMAIN last.writes : last.writes[i] = last.state
              /\ last.arg # None => last.state = last.arg
              /\ cache[last.state].val = last.state
              /\ origin[last.state] = Adapter
    /\ (last.op = "login" /\ last.checked /\ last.cached
            /\ origin[last.state] # Adapter)
           => /\ ~last.rejected
              /\ last.tokenCalls = 1

\* C38: a login on another provider and another client configuration passes
\* the state check with an explicit state that authorize set elsewhere
C38_Witness_ForeignStatePasses ==
    /\ last.op = "login"
    /\ last.state = "s1"
    /\ last.checked
    /\ ~last.rejected
    /\ last.tokenCalls = 1
    /\ origin["s1"].source # source
    /\ origin["s1"].client_id # config.client_id

\* the callback map of the call lacks one of the three values the
\* mini-program login reads from it
MiniCallbackIncomplete ==
    \/ ~Truthy(last.callback.code)
    \/ ~Truthy(last.callback.encrypted_data)
    \/ ~Truthy(last.callback.iv)

\* C39: AuthWechatMiniSource.login makes no state lookup under any
\* configuration, and sends no HTTP request unless the callback map itself
\* holds a non-empty code, encrypted_data and iv: when one of the three is
\* missing it returns a failure response, also when encrypted_data and iv
\* are given as keyword arguments
C39_MiniLoginReadsCallbackOnly ==
    (last.op = "login" /\ source = "wechat_mini")
        => /\ ~last.checked
           /\ ~last.rejected
           /\ cache = EmptyCache
           /\ last.http > 0 => ~MiniCallbackIncomplete
           /\ MiniCallbackIncomplete
                  => /\ IsFailureWithoutPayload(last)
                     /\ last.resp.code = 400
                     /\ last.http = 0
                     /\ last.tokenCalls = 0
                     /\ last.userCalls = 0

\* C39: the state check is on, the callback carries a state no authorize set
\* and a code but neither encrypted_data nor iv, which the caller passes as
\* keyword arguments: the login fails without a request
C39_Witness_KwargsDoNotComplete ==
    /\ last.op = "login"
    /\ source = "wechat_mini"
    /\ ~config.ignore_check_state
    /\ last.callback.state = "forged"
    /\ last.callback.code = "c1"
    /\ last.callback.encrypted_data = None
    /\ last.callback.iv = None
    /\ last.kwargs.encrypted_data = "enc1"
    /\ last.kwargs.iv = "iv1"
    /\ ~last.checked
    /\ IsFailureWithoutPayload(last)
    /\ last.http = 0

====
